---- MODULE Spec2Model ----
(***************************************************************************)
(* UnoCloud sync engine: the ledger (SyncTracker), the scan/diff step and  *)
(* the upload orchestration of SyncEngine.syncMapping.                     *)
(***************************************************************************)
EXTENDS Integers, Sequences, FiniteSets, TLC

(* ------------------------------ bounds --------------------------------- *)
\* number of files under the mapping's source directory
NumPaths == 2
\* number of distinct file contents
NumContents == 2
\* number of syncMapping runs started in one behaviour
MaxRuns == 2
\* concurrent callers of getAccessToken, and token requests they may issue
NumCallers == 2
MaxAcquisitions == 3

Paths == 1..NumPaths
Contents == 1..NumContents
Mtimes == {1, 2}

\* the tenant and mapping of the runs, and a second tenant / mapping whose
\* ledger rows share the table
TenantId == "t1"
MappingId == "m1"
Tenants == {"t1", "t2"}
Mappings == {"m1", "m2"}
Keys == Tenants \X Mappings \X Paths

NoFile == [absent |-> TRUE]
NoRec == [absent |-> TRUE]
NoItem == [absent |-> TRUE]
NoDry == [absent |-> TRUE]
NoName == [absent |-> TRUE]
\* the empty strings the catch block stores as remote path and item id
EmptyPath == <<>>
EmptyId == 0

SyncStatus == {"pending", "syncing", "synced", "failed", "deleted"}

VARIABLES
  fs,                \* local filesystem: path -> NoFile or [content, mtime]
  remote,            \* remote drive: path -> NoItem or [content] last uploaded
  ledger,            \* synced_files table: key -> NoRec or a row
  job,               \* the sync_jobs row of the current run
  pc,                \* position of the run in syncMapping
  scanResult,        \* scanResult.files
  filesToSync,       \* local filesToSync
  idx,               \* index of the loop's current file in filesToSync
  errors,            \* local errors
  processed,         \* local processed
  bytesTransferred,  \* local bytesTransferred
  item,              \* the item returned by uploadFile for the current file
  caught,            \* message of the error caught for the current file
  runs,              \* runs started
  edited,            \* the filesystem was modified (at most once in a behaviour)
  fsTouched,         \* the filesystem was modified since the last scan
  sameFs,            \* the last scan saw the filesystem the scan before it saw
  prevEnd,           \* how the previous run ended
  lastEnd,           \* how the latest run ended
  answer,            \* value returned by the latest tracker call (tracker spec)
  calls,             \* kinds of remote calls the current run has issued
  attempts,          \* paths whose loop iteration the current run has begun, in order
  dry,               \* what the latest dryRun scanned and returned
  phase,             \* phase of the latest progress event of the current run
  totalSize,         \* uploadFile: content.length
  route,             \* uploadFile: the upload methods the call has entered
  upc,               \* uploadFile: position of the call
  uploaded,          \* uploadLargeFile: local uploaded
  ranges,            \* uploadLargeFile: the <<rangeStart, rangeEnd>> sent, in order
  responses,         \* uploadLargeFile: the requests sent and how each was answered
  folders,           \* remote drive: the folder paths that exist
  efPath,            \* ensureFolder: folderPath split into parts
  efPos,             \* ensureFolder: parts handled by the loop
  efOut,             \* ensureFolder: position and outcome of the call
  efCreated,         \* ensureFolder: create requests the call has issued
  efAgain,           \* ensureFolder: an earlier call with this path succeeded
  efCalls,           \* ensureFolder: calls made
  ensured,           \* folder paths an ensureFolder call has succeeded for
  requests,          \* graph client: the requests of its latest step, as sent
  name,              \* sanitizeName: the argument, a sequence of characters
  sanitized,         \* sanitizeName: NoName or the [value] returned
  rows,              \* synced_files as a table: its rows in insertion order
  lastOp,            \* synced_files: the latest statement run on the table
  tenantMappings,    \* tenant.mappings: the enabled flag of each mapping, in order
  cli,               \* sync run: the options, the local mappings, where the command is
  tenantRun,                \* syncTenant: loop position, jobs, mappings synced, outcome
  statusOut,         \* status clear: NoOutput or the arguments and what was printed
  racers,            \* concurrent runs: each one's ensureFolder call and what it recorded
  creates,           \* concurrent runs: the folders the drive has created, in order
  walk,              \* scanDirectory: the directory, the filters, files and callbacks
  auth,              \* AuthManager: token cache, callers, acquisitions in flight
  enrol,             \* enroll: tenant store, license store, arguments and result
  issued             \* signed key: the key created and what its validation said

\* the state of the graph client's calls checked on their own
UploadVars == <<totalSize, route, upc, uploaded, ranges, responses>>
FolderVars == <<folders, efPath, efPos, efOut, efCreated, efAgain, efCalls, ensured,
                requests>>
NameVars == <<name, sanitized>>
\* the state of the specifications added after these
TableVars == <<rows, lastOp>>
CliVars == <<tenantMappings, cli, tenantRun, statusOut>>
RaceVars == <<racers, creates>>
ServiceVars == <<walk, auth, enrol, issued>>
More == <<TableVars, CliVars, RaceVars, ServiceVars>>
Side == <<UploadVars, FolderVars, NameVars, More>>

vars == <<fs, remote, ledger, job, pc, scanResult, filesToSync, idx, errors,
          processed, bytesTransferred, item, caught, runs, edited, fsTouched,
          sameFs, prevEnd, lastEnd, answer, calls, attempts, dry, phase, Side>>

(* --------------------- scanner (core/scanner.ts) ----------------------- *)
\* the digest of the empty stream, whatever the file holds
calculateHashOfNothing(c) == 100

\* sha256 of a file's bytes: distinct contents have distinct digests
calculateHash(c) == 100 + c

\* stats.size of a file holding content c
FileSize(c) == 10 * c

\* odd paths lie in the source root (a.txt), even ones in a subdirectory (b/c.txt)
InSubdir(p) == p % 2 = 0

scanFile(f, p) ==
  [path |-> p, size |-> FileSize(f[p].content), hash |-> calculateHash(f[p].content),
   modifiedAt |-> f[p].mtime]

RECURSIVE scanFrom(_, _)
scanFrom(f, p) ==
  IF p > NumPaths THEN <<>>
  ELSE IF f[p] = NoFile THEN scanFrom(f, p + 1)
  ELSE <<scanFile(f, p)>> \o scanFrom(f, p + 1)

\* files of the scan, in directory traversal order
scanDirectory(f) == scanFrom(f, 1)

(* --------------------- tracker (core/tracker.ts) ----------------------- *)
getSyncedFile(l, tenantId, mappingId, localPath) == l[<<tenantId, mappingId, localPath>>]

\* needsSync without the failed-status test
needsSyncHashOnly(l, tenantId, mappingId, localPath, currentHash) ==
  LET existing == l[<<tenantId, mappingId, localPath>>]
  IN  IF existing = NoRec THEN TRUE
      ELSE IF existing.fileHash # currentHash THEN TRUE
      ELSE FALSE

\* needsSync taking every row that is not synced as in need of sync
needsSyncUnlessSynced(l, tenantId, mappingId, localPath, currentHash) ==
  LET existing == l[<<tenantId, mappingId, localPath>>]
  IN  IF existing = NoRec THEN TRUE
      ELSE IF existing.status # "synced" THEN TRUE
      ELSE IF existing.fileHash # currentHash THEN TRUE
      ELSE FALSE

needsSync(l, tenantId, mappingId, localPath, currentHash) ==
  LET existing == getSyncedFile(l, tenantId, mappingId, localPath)
  IN  IF existing = NoRec THEN TRUE
      ELSE IF existing.status = "failed" THEN TRUE
      ELSE IF existing.fileHash # currentHash THEN TRUE
      ELSE FALSE

\* an upsert whose conflict target is the local path alone
upsertSyncedFileByPath(l, file) ==
  [k \in DOMAIN l |->
     IF k[3] = file.localPath
     THEN [remotePath |-> file.remotePath, driveItemId |-> file.driveItemId,
           fileHash |-> file.fileHash, fileSize |-> file.fileSize,
           localModifiedAt |-> file.localModifiedAt, status |-> file.status,
           errorMessage |-> file.errorMessage]
     ELSE l[k]]

upsertSyncedFile(l, file) ==
  [l EXCEPT ![<<file.tenantId, file.mappingId, file.localPath>>] =
     [remotePath |-> file.remotePath, driveItemId |-> file.driveItemId,
      fileHash |-> file.fileHash, fileSize |-> file.fileSize,
      localModifiedAt |-> file.localModifiedAt, status |-> file.status,
      errorMessage |-> file.errorMessage]]

updateFileStatus(l, tenantId, mappingId, localPath, status, errorMessage) ==
  LET k == <<tenantId, mappingId, localPath>>
  IN  IF l[k] = NoRec THEN l
      ELSE [l EXCEPT ![k].status = status, ![k].errorMessage = errorMessage]

deleteSyncedFile(l, tenantId, mappingId, localPath) ==
  [l EXCEPT ![<<tenantId, mappingId, localPath>>] = NoRec]

createJob ==
  [status |-> "pending", filesTotal |-> 0, filesProcessed |-> 0, filesFailed |-> 0,
   bytesTotal |-> 0, bytesTransferred |-> 0, errors |-> <<>>]

\* setJobTotals leaving the status as it is
setJobTotalsKeepingStatus(j, filesTotal, bytesTotal) ==
  [j EXCEPT !.filesTotal = filesTotal, !.bytesTotal = bytesTotal]

setJobTotals(j, filesTotal, bytesTotal) ==
  [j EXCEPT !.filesTotal = filesTotal, !.bytesTotal = bytesTotal, !.status = "running"]

\* updateJobProgress without COALESCE: an omitted filesFailed empties the column
updateJobProgressResetting(j, filesProcessed, transferred, filesFailed) ==
  [j EXCEPT !.filesProcessed = filesProcessed, !.bytesTransferred = transferred,
            !.filesFailed = IF filesFailed = -1 THEN 0 ELSE filesFailed]

\* filesFailed = -1 stands for the omitted optional argument (COALESCE keeps the column)
updateJobProgress(j, filesProcessed, transferred, filesFailed) ==
  [j EXCEPT !.filesProcessed = filesProcessed, !.bytesTransferred = transferred,
            !.filesFailed = IF filesFailed = -1 THEN @ ELSE filesFailed]

completeJob(j, status, errs) == [j EXCEPT !.status = status, !.errors = errs]


(* ------------------- engine (SyncEngine.syncMapping) ------------------- *)
\* mapping.source, the path the job-level error entry names
Source == 0
\* mapping.destination.folder || ''
DestFolder == ""
\* tenant.options.preserveFolderStructure (DEFAULT_SYNC_OPTIONS)
preserveFolderStructure == TRUE

\* path.dirname(path.join(destFolder, relativePath or name))
remoteDir(p) ==
  IF preserveFolderStructure /\ InSubdir(p)
  THEN (IF DestFolder = "" THEN "b" ELSE "dest/b")
  ELSE (IF DestFolder = "" THEN "." ELSE DestFolder)

remotePath(p) == <<remoteDir(p), p>>

\* the parent folder has to be ensured for this file
needsEnsureFolder(p) == remoteDir(p) # "" /\ remoteDir(p) # "." /\ remoteDir(p) # DestFolder

\* the scan result taken whole, without the filter
filterNothing(l, files) == files

\* the filter returning the files in reverse scan order
RECURSIVE filterNeedsSyncReversed(_, _)
filterNeedsSyncReversed(l, files) ==
  IF files = <<>> THEN <<>>
  ELSE LET f == Head(files)
       IN  filterNeedsSyncReversed(l, Tail(files))
           \o (IF needsSync(l, TenantId, MappingId, f.path, f.hash) THEN <<f>> ELSE <<>>)

\* scanResult.files.filter(needsSync)
RECURSIVE filterNeedsSync(_, _)
filterNeedsSync(l, files) ==
  IF files = <<>> THEN <<>>
  ELSE LET f == Head(files)
       IN  (IF needsSync(l, TenantId, MappingId, f.path, f.hash) THEN <<f>> ELSE <<>>)
           \o filterNeedsSync(l, Tail(files))

RECURSIVE sumSizes(_)
sumSizes(files) == IF files = <<>> THEN 0 ELSE Head(files).size + sumSizes(Tail(files))

\* the success path storing the remote item's id where the file's digest belongs
syncedRecordItemHash(file, it) ==
  [tenantId |-> TenantId, mappingId |-> MappingId, localPath |-> file.path,
   remotePath |-> remotePath(file.path), driveItemId |-> it.id,
   fileHash |-> it.id, fileSize |-> file.size,
   localModifiedAt |-> file.modifiedAt, status |-> "synced", errorMessage |-> ""]

syncedRecord(file, it) ==
  [tenantId |-> TenantId, mappingId |-> MappingId, localPath |-> file.path,
   remotePath |-> remotePath(file.path), driveItemId |-> it.id,
   fileHash |-> file.hash, fileSize |-> file.size,
   localModifiedAt |-> file.modifiedAt, status |-> "synced", errorMessage |-> ""]

\* the catch block recording the file as synced
failedRecordAsSynced(file, message) ==
  [tenantId |-> TenantId, mappingId |-> MappingId, localPath |-> file.path,
   remotePath |-> EmptyPath, driveItemId |-> EmptyId,
   fileHash |-> file.hash, fileSize |-> file.size,
   localModifiedAt |-> file.modifiedAt, status |-> "synced", errorMessage |-> message]

\* the catch block recording the file as pending
failedRecordAsPending(file, message) ==
  [tenantId |-> TenantId, mappingId |-> MappingId, localPath |-> file.path,
   remotePath |-> EmptyPath, driveItemId |-> EmptyId,
   fileHash |-> file.hash, fileSize |-> file.size,
   localModifiedAt |-> file.modifiedAt, status |-> "pending", errorMessage |-> message]

failedRecord(file, message) ==
  [tenantId |-> TenantId, mappingId |-> MappingId, localPath |-> file.path,
   remotePath |-> EmptyPath, driveItemId |-> EmptyId,
   fileHash |-> file.hash, fileSize |-> file.size,
   localModifiedAt |-> file.modifiedAt, status |-> "failed", errorMessage |-> message]

syncError(filePath, message) == [filePath |-> filePath, error |-> message, retryCount |-> 0]

\* any error fails the job
finalStatusStrict(errs, files) == IF Len(errs) = 0 THEN "completed" ELSE "failed"

\* <= in place of <
finalStatusOffByOne(errs, files) ==
  IF Len(errs) = 0 THEN "completed"
  ELSE IF Len(errs) <= Len(files) THEN "completed" ELSE "failed"

finalStatus(errs, files) ==
  IF Len(errs) = 0 THEN "completed"
  ELSE IF Len(errs) < Len(files) THEN "completed" ELSE "failed"

Locals == <<scanResult, filesToSync, idx, errors, processed, bytesTransferred, item, caught,
            calls, attempts>>
Env == <<fs, remote, edited, fsTouched>>
Hist == <<sameFs, prevEnd, lastEnd>>

ResetLocals ==
  /\ scanResult' = <<>>
  /\ filesToSync' = <<>>
  /\ idx' = 0
  /\ errors' = <<>>
  /\ processed' = 0
  /\ bytesTransferred' = 0
  /\ item' = NoItem
  /\ caught' = ""
  /\ calls' = {}
  /\ attempts' = <<>>

\* no graph-client call is going
InitUpload ==
  /\ totalSize = 0
  /\ route = {}
  /\ upc = "idle"
  /\ uploaded = 0
  /\ ranges = <<>>
  /\ responses = <<>>

InitFolder ==
  /\ folders = {}
  /\ efPath = <<>>
  /\ efPos = 0
  /\ efOut = "idle"
  /\ efCreated = 0
  /\ efAgain = FALSE
  /\ efCalls = 0
  /\ ensured = {}
  /\ requests = <<>>

\* no name is at hand (the empty sequence) and nothing was returned
InitName ==
  /\ name = <<>>
  /\ sanitized = NoName

InitTable ==
  /\ rows = <<>>
  /\ lastOp = [op |-> "none"]

InitCli ==
  /\ tenantMappings = <<>>
  /\ cli = [at |-> "idle", mapping |-> -1, dryRun |-> FALSE, mappings |-> <<>>,
            scanned |-> <<>>]
  /\ tenantRun = [at |-> "idle", pos |-> 0, jobs |-> <<>>, synced |-> <<>>]
  /\ statusOut = [absent |-> TRUE]

InitRace ==
  /\ racers = [c \in {1, 2} |-> [at |-> "idle", path |-> <<>>, pos |-> 0, recorded |-> "none"]]
  /\ creates = <<>>

InitService ==
  /\ walk = [at |-> "idle", entries |-> <<>>,
             filters |-> [include |-> {}, exclude |-> {}, maxFileSize |-> -1,
                          minFileSize |-> -1],
             files |-> <<>>, onFile |-> <<>>]
  /\ auth = [tokenCache |-> [accessToken |-> 0, state |-> "none"],
             callers |-> [c \in 1..NumCallers |-> [at |-> "idle", token |-> 0]],
             acquired |-> 0, minted |-> 0, issuedAt |-> <<>>]
  /\ enrol = [at |-> "idle", tenants |-> {},
              licenses |-> [k \in {"k1", "k2"} |->
                              [stored |-> FALSE, activated |-> FALSE, tenantId |-> <<>>]],
              before |-> [tenants |-> {}, licenses |-> <<>>],
              licenseKey |-> "",
              result |-> [success |-> FALSE, tenantId |-> <<>>, error |-> ""]]
  /\ issued = [at |-> "none", tier |-> <<>>, data |-> <<>>, signature |-> <<>>,
               key |-> <<>>, expiresInDays |-> 0, now |-> 0,
               validation |-> [valid |-> FALSE, tier |-> <<>>, error |-> ""],
               activated |-> FALSE]

Init ==
  /\ InitService
  /\ InitRace
  /\ InitTable
  /\ InitCli
  /\ fs = [p \in Paths |-> [content |-> 1, mtime |-> 1]]
  /\ remote = [p \in Paths |-> NoItem]
  /\ ledger = [k \in Keys |->
       IF k = <<"t1", "m2", 1>> \/ k = <<"t2", "m1", 1>>
       THEN [remotePath |-> remotePath(1), driveItemId |-> 1, fileHash |-> calculateHash(1),
             fileSize |-> FileSize(1), localModifiedAt |-> 1, status |-> "synced",
             errorMessage |-> ""]
       ELSE NoRec]
  /\ job = createJob
  /\ pc = "idle"
  /\ scanResult = <<>>
  /\ filesToSync = <<>>
  /\ idx = 0
  /\ errors = <<>>
  /\ processed = 0
  /\ bytesTransferred = 0
  /\ item = NoItem
  /\ caught = ""
  /\ runs = 0
  /\ edited = FALSE
  /\ fsTouched = FALSE
  /\ sameFs = FALSE
  /\ prevEnd = "none"
  /\ lastEnd = "none"
  /\ answer = NoRec
  /\ calls = {}
  /\ attempts = <<>>
  /\ dry = NoDry
  /\ phase = "none"
  /\ InitUpload
  /\ InitFolder
  /\ InitName

\* line 239: createJob
StartRunBody ==
  /\ pc \in {"idle", "done"}
  /\ job' = createJob
  /\ ResetLocals
  /\ pc' = "start"
  /\ prevEnd' = lastEnd
  /\ lastEnd' = "running"
  /\ dry' = NoDry
  /\ phase' = "none"
  /\ UNCHANGED <<fs, remote, ledger, edited, fsTouched, sameFs, answer, Side>>

StartRun ==
  /\ runs < MaxRuns
  /\ runs' = runs + 1
  /\ StartRunBody

\* lines 248-253: the scanning event, then fileScanner.scan
ScanWith(outcome) ==
  /\ pc = "start"
  /\   IF outcome = "ok"
       THEN /\ scanResult' = scanDirectory(fs)
            /\ sameFs' = ~fsTouched
            /\ fsTouched' = FALSE
            /\ pc' = "diff"
            /\ caught' = caught
       ELSE /\ caught' = outcome
            /\ pc' = "outer_catch"
            /\ UNCHANGED <<scanResult, sameFs, fsTouched>>
  /\ UNCHANGED <<fs, remote, ledger, job, filesToSync, idx, errors, processed,
                 bytesTransferred, item, runs, edited, prevEnd, lastEnd, answer,
                 calls, attempts, dry, Side>>
  /\ phase' = "scanning"

Scan == \E outcome \in {"ok", "callback", "path"} : ScanWith(outcome)

\* lines 255-265: the diff against the ledger and setJobTotals
Diff ==
  /\ pc = "diff"
  /\ LET toSync == filterNeedsSync(ledger, scanResult)
     IN  /\ filesToSync' = toSync
         /\ job' = setJobTotals(job, Len(toSync), sumSizes(toSync))
         /\ pc' = IF Len(toSync) = 0 THEN "zero" ELSE "connect"
  /\ UNCHANGED <<ledger, scanResult, idx, errors, processed, bytesTransferred, item,
                 caught, runs, answer, calls, attempts, dry, phase, Side>>
  /\ UNCHANGED Env
  /\ UNCHANGED Hist

\* the zero-work exit ending the job as failed
ZeroCompleteAsFailed ==
  /\ pc = "zero"
  /\ job' = completeJob(job, "failed", <<>>)
  /\ lastEnd' = "clean"
  /\ pc' = "complete_event"
  /\ UNCHANGED <<ledger, runs, sameFs, prevEnd, answer, dry, phase, Side>>
  /\ UNCHANGED Locals
  /\ UNCHANGED Env

\* lines 267-268: nothing to sync
ZeroComplete ==
  /\ pc = "zero"
  /\ job' = completeJob(job, "completed", <<>>)
  /\ lastEnd' = "clean"
  /\ pc' = "complete_event"
  /\ UNCHANGED <<ledger, runs, sameFs, prevEnd, answer, dry, phase, Side>>
  /\ UNCHANGED Locals
  /\ UNCHANGED Env

\* the remote calls of lines 275-279 issued up to the one that fails
callsOfConnect(outcome) ==
  IF outcome = "callback" THEN {}
  ELSE IF outcome = "auth" THEN {"token"}
  ELSE IF outcome = "site" THEN {"token", "site"}
  ELSE {"token", "site", "library"}

\* lines 274-285: the uploading event, token, site, library
ConnectWith(outcome) ==
  /\ pc = "connect"
  /\   IF outcome = "ok"
       THEN /\ idx' = 1
            /\ pc' = "file_begin"
            /\ caught' = caught
       ELSE /\ caught' = outcome
            /\ pc' = "outer_catch"
            /\ idx' = idx
  /\ calls' = callsOfConnect(outcome)
  /\ phase' = "uploading"
  /\ UNCHANGED <<ledger, job, scanResult, filesToSync, errors, processed,
                 bytesTransferred, item, runs, answer, attempts, dry, Side>>
  /\ UNCHANGED Env
  /\ UNCHANGED Hist

Connect == \E outcome \in {"ok", "callback", "auth", "site", "library"} : ConnectWith(outcome)

\* a loop body that logs a failure of the event or of ensureFolder and goes on
\* to the upload
FileBeginContinuing(outcome) ==
  /\ pc = "file_begin"
  /\ outcome = "folder" => needsEnsureFolder(filesToSync[idx].path)
  /\ pc' = "file_upload"
  /\ caught' = IF outcome = "ok" THEN caught ELSE outcome
  /\ attempts' = Append(attempts, filesToSync[idx].path)
  /\ calls' = IF outcome # "callback" /\ needsEnsureFolder(filesToSync[idx].path)
              THEN calls \cup {"folder"} ELSE calls
  /\ phase' = "uploading"
  /\ UNCHANGED <<ledger, job, scanResult, filesToSync, idx, errors, processed,
                 bytesTransferred, item, runs, answer, dry, Side>>
  /\ UNCHANGED Env
  /\ UNCHANGED Hist

\* lines 294-306: the uploading event of the file, the parent folder
FileBeginWith(outcome) ==
  /\ pc = "file_begin"
  /\ outcome = "folder" => needsEnsureFolder(filesToSync[idx].path)
  /\ IF outcome = "ok"
     THEN pc' = "file_upload" /\ caught' = caught
     ELSE pc' = "file_catch" /\ caught' = outcome
  /\ attempts' = Append(attempts, filesToSync[idx].path)
  /\ calls' = IF outcome # "callback" /\ needsEnsureFolder(filesToSync[idx].path)
              THEN calls \cup {"folder"} ELSE calls
  /\ phase' = "uploading"
  /\ UNCHANGED <<ledger, job, scanResult, filesToSync, idx, errors, processed,
                 bytesTransferred, item, runs, answer, dry, Side>>
  /\ UNCHANGED Env
  /\ UNCHANGED Hist

FileBegin == \E outcome \in {"ok", "callback", "folder"} : FileBeginWith(outcome)

\* lines 309-320: readFileSync and uploadFile; the remote may store the content
\* and still answer with an error ("lost")
FileUploadWith(outcome) ==
  /\ pc = "file_upload"
  /\ LET file == filesToSync[idx]
     IN  IF fs[file.path] = NoFile
         THEN /\ outcome = "ENOENT"
              /\ caught' = "ENOENT"
              /\ pc' = "file_catch"
              /\ UNCHANGED <<remote, item, calls>>
         ELSE   /\ outcome # "ENOENT"
                /\ calls' = calls \cup {"upload"}
                /\ remote' = IF outcome = "upload" THEN remote
                             ELSE [remote EXCEPT ![file.path] = [content |-> fs[file.path].content]]
                /\ IF outcome = "ok"
                   THEN /\ item' = [id |-> file.path]
                        /\ pc' = "file_record"
                        /\ caught' = caught
                   ELSE /\ item' = item
                        /\ caught' = "upload"
                        /\ pc' = "file_catch"
  /\ UNCHANGED <<fs, edited, fsTouched, ledger, job, scanResult, filesToSync, idx, errors,
                 processed, bytesTransferred, runs, answer, attempts, dry, phase, Side>>
  /\ UNCHANGED Hist

FileUpload == \E outcome \in {"ok", "upload", "lost", "ENOENT"} : FileUploadWith(outcome)

\* a loop that ends at the first file that fails
NextFileStoppingOnError ==
  IF idx = Len(filesToSync) \/ pc = "file_catch" THEN "finalize" ELSE "file_begin"

\* line 292: the loop goes on to the next file, or ends after the last
NextFile == IF idx = Len(filesToSync) THEN "finalize" ELSE "file_begin"

\* lines 323-341: record the successful sync
FileRecord ==
  /\ pc = "file_record"
  /\ LET file == filesToSync[idx]
     IN  /\ ledger' = upsertSyncedFile(ledger, syncedRecord(file, item))
         /\ bytesTransferred' = bytesTransferred + file.size
         /\ processed' = processed + 1
         /\ job' = updateJobProgress(job, processed + 1, bytesTransferred + file.size, -1)
  /\ item' = NoItem
  /\ pc' = NextFile
  /\ idx' = IF idx = Len(filesToSync) THEN idx ELSE idx + 1
  /\ UNCHANGED <<scanResult, filesToSync, errors, caught, runs, answer, calls, attempts,
                 dry, phase, Side>>
  /\ UNCHANGED Env
  /\ UNCHANGED Hist

\* lines 342-368: the per-file catch
FileCatch ==
  /\ pc = "file_catch"
  /\ LET file == filesToSync[idx]
         errs == Append(errors, syncError(file.path, caught))
     IN  /\ errors' = errs
         /\ ledger' = upsertSyncedFile(ledger, failedRecord(file, caught))
         /\ job' = updateJobProgress(job, processed, bytesTransferred, Len(errs))
  /\ caught' = ""
  /\ item' = NoItem
  /\ pc' = NextFile
  /\ idx' = IF idx = Len(filesToSync) THEN idx ELSE idx + 1
  /\ UNCHANGED <<scanResult, filesToSync, processed, bytesTransferred, runs, answer,
                 calls, attempts, dry, phase, Side>>
  /\ UNCHANGED Env
  /\ UNCHANGED Hist

\* lines 371-373: the final status
Finalize ==
  /\ pc = "finalize"
  /\ job' = completeJob(job, finalStatus(errors, filesToSync), errors)
  /\ lastEnd' = IF errors = <<>> THEN "clean" ELSE "dirty"
  /\ pc' = "complete_event"
  /\ UNCHANGED <<ledger, runs, sameFs, prevEnd, answer, dry, phase, Side>>
  /\ UNCHANGED Locals
  /\ UNCHANGED Env

\* lines 269-270 and 375-378: the complete event, then return
CompleteEventWith(throws) ==
  /\ pc = "complete_event"
  /\   IF throws
       THEN pc' = "outer_catch" /\ caught' = "callback"
       ELSE pc' = "done" /\ caught' = caught
  /\ phase' = "complete"
  /\ UNCHANGED <<ledger, job, scanResult, filesToSync, idx, errors, processed,
                 bytesTransferred, item, runs, answer, calls, attempts, dry, Side>>
  /\ UNCHANGED Env
  /\ UNCHANGED Hist

CompleteEvent == \E throws \in BOOLEAN : CompleteEventWith(throws)

\* a top-level catch that adds its entry to the job's status and errors as they are
OuterCatchKeepingStatus ==
  /\ pc = "outer_catch"
  /\ job' = completeJob(job, job.status, Append(job.errors, syncError(Source, caught)))
  /\ lastEnd' = IF lastEnd = "running" THEN "aborted" ELSE lastEnd
  /\ pc' = "done"
  /\ phase' = "error"
  /\ UNCHANGED <<ledger, runs, sameFs, prevEnd, answer, dry, Side>>
  /\ UNCHANGED Locals
  /\ UNCHANGED Env

\* lines 379-392: the top-level catch, with its error event
OuterCatch ==
  /\ pc = "outer_catch"
  /\ job' = completeJob(job, "failed", <<syncError(Source, caught)>>)
  /\ lastEnd' = IF lastEnd = "running" THEN "aborted" ELSE lastEnd
  /\ pc' = "done"
  /\ phase' = "error"
  /\ UNCHANGED <<ledger, runs, sameFs, prevEnd, answer, dry, Side>>
  /\ UNCHANGED Locals
  /\ UNCHANGED Env

\* the process dies in the middle of a run: the database and the remote stay
Crash ==
  /\ pc \notin {"idle", "done"}
  /\ ResetLocals
  /\ pc' = "idle"
  /\ lastEnd' = "crashed"
  /\ phase' = "none"
  /\ UNCHANGED <<ledger, job, runs, sameFs, prevEnd, answer, dry, Side>>
  /\ UNCHANGED Env

\* somebody creates, deletes, rewrites or touches a file of the source directory
ModifyFile ==
  /\ ~edited
  /\ \E p \in Paths :
       \E v \in {NoFile} \cup [content : Contents, mtime : Mtimes] :
         /\ v # fs[p]
         /\ fs' = [fs EXCEPT ![p] = v]
  /\ edited' = TRUE
  /\ fsTouched' = TRUE
  /\ UNCHANGED <<remote, ledger, job, pc, runs, answer, dry, phase, Side>>
  /\ UNCHANGED Locals
  /\ UNCHANGED Hist

\* the result of a dry run whose up-to-date count is the number of scanned files
dryRunCountingAll(l, files) ==
  LET toSync == filterNeedsSync(l, files)
  IN  [toSync |-> toSync, upToDate |-> Len(files), totalSize |-> sumSizes(toSync)]

\* lines 445-451: the up-to-date counter of dryRun's loop
RECURSIVE countUpToDate(_, _)
countUpToDate(l, files) ==
  IF files = <<>> THEN 0
  ELSE (IF needsSync(l, TenantId, MappingId, Head(files).path, Head(files).hash) THEN 0 ELSE 1)
       + countUpToDate(l, Tail(files))

\* lines 440-457: what dryRun returns for a scan
dryRun(l, files) ==
  LET toSync == filterNeedsSync(l, files)
  IN  [toSync |-> toSync, upToDate |-> countUpToDate(l, files),
       totalSize |-> sumSizes(toSync)]

\* a dry run that opens a job row as syncMapping does
DryRunOpeningJob(outcome) ==
  /\ pc \in {"idle", "done"}
  /\ dry' = IF outcome = "ok"
            THEN [scanned |-> scanDirectory(fs), result |-> dryRun(ledger, scanDirectory(fs))]
            ELSE NoDry
  /\ job' = createJob
  /\ UNCHANGED <<ledger, pc, runs, answer, phase, Side>>
  /\ UNCHANGED Locals
  /\ UNCHANGED Env
  /\ UNCHANGED Hist

\* SyncEngine.dryRun, called while no run is going; the scan may throw
DryRunWith(outcome) ==
  /\ pc \in {"idle", "done"}
  /\ dry' = IF outcome = "ok"
            THEN [scanned |-> scanDirectory(fs), result |-> dryRun(ledger, scanDirectory(fs))]
            ELSE NoDry
  /\ UNCHANGED <<ledger, job, pc, runs, answer, phase, Side>>
  /\ UNCHANGED Locals
  /\ UNCHANGED Env
  /\ UNCHANGED Hist

DryRun == \E outcome \in {"ok", "path"} : DryRunWith(outcome)

Next ==
  \/ StartRun
  \/ Scan
  \/ Diff
  \/ ZeroComplete
  \/ Connect
  \/ FileBegin
  \/ FileUpload
  \/ FileRecord
  \/ FileCatch
  \/ Finalize
  \/ CompleteEvent
  \/ OuterCatch
  \/ Crash
  \/ ModifyFile
  \/ DryRun

Spec == Init /\ [][Next]_vars


(* ------ repeated runs: the caller starts a run whenever none is going ----- *)
StartRunAgain ==
  /\ runs' = runs
  /\ StartRunBody

\* the engine never reads the remote's content, so for the ledger a lost
\* response is a failed upload: the repeated runs leave it out
FileUploadAnswered == \E outcome \in {"ok", "upload", "ENOENT"} : FileUploadWith(outcome)

NextLive ==
  \/ StartRunAgain
  \/ Scan
  \/ Diff
  \/ ZeroComplete
  \/ Connect
  \/ FileBegin
  \/ FileUploadAnswered
  \/ FileRecord
  \/ FileCatch
  \/ Finalize
  \/ CompleteEvent
  \/ OuterCatch
  \/ ModifyFile

\* the steps of the engine and its caller; pc enables at most one of them
EngineStep ==
  \/ StartRunAgain
  \/ Scan
  \/ Diff
  \/ ZeroComplete
  \/ Connect
  \/ FileBegin
  \/ FileUploadAnswered
  \/ FileRecord
  \/ FileCatch
  \/ Finalize
  \/ CompleteEvent
  \/ OuterCatch

\* a run that can take a step takes it, runs are started again and again, and the
\* scan, the remote calls and the progress callback do not fail forever
FairLive ==
  /\ WF_vars(EngineStep)
  /\ SF_vars(ScanWith("ok"))
  /\ SF_vars(ConnectWith("ok"))
  /\ SF_vars(FileBeginWith("ok"))
  /\ SF_vars(FileUploadWith("ok"))

SpecLive == Init /\ [][NextLive]_vars /\ FairLive

(* ------------- the tracker's operations applied on their own ------------ *)
\* keys the tracker operations are applied to: two paths of one mapping, the
\* same path under another mapping and under another tenant
TrackerKeys == {<<"t1", "m1", 1>>, <<"t1", "m1", 2>>, <<"t1", "m2", 1>>, <<"t2", "m1", 1>>}
\* digests of two different contents
Hashes == {calculateHash(1), calculateHash(2)}

EngineVars == <<fs, remote, job, pc, scanResult, filesToSync, idx, errors, processed,
                bytesTransferred, item, caught, runs, edited, fsTouched, sameFs,
                prevEnd, lastEnd, calls, attempts, dry, phase, Side>>

TrackerUpsert ==
  /\ \E k \in TrackerKeys, st \in SyncStatus, h \in Hashes :
       ledger' = upsertSyncedFile(ledger,
         [tenantId |-> k[1], mappingId |-> k[2], localPath |-> k[3],
          remotePath |-> remotePath(k[3]), driveItemId |-> k[3],
          fileHash |-> h, fileSize |-> FileSize(h - 100), localModifiedAt |-> 1,
          status |-> st, errorMessage |-> IF st = "failed" THEN "upload" ELSE ""])
  /\ answer' = NoRec
  /\ UNCHANGED EngineVars

TrackerUpdateStatus ==
  /\ \E k \in TrackerKeys, st \in SyncStatus :
       ledger' = updateFileStatus(ledger, k[1], k[2], k[3], st,
                                  IF st = "failed" THEN "upload" ELSE "")
  /\ answer' = NoRec
  /\ UNCHANGED EngineVars

TrackerDelete ==
  /\ \E k \in TrackerKeys : ledger' = deleteSyncedFile(ledger, k[1], k[2], k[3])
  /\ answer' = NoRec
  /\ UNCHANGED EngineVars

\* a caller asks needsSync; answer is the value returned by the latest call
TrackerNeedsSync ==
  /\ \E k \in TrackerKeys, h \in Hashes :
       answer' = [key |-> k, hash |-> h,
                  result |-> needsSync(ledger, k[1], k[2], k[3], h)]
  /\ UNCHANGED ledger
  /\ UNCHANGED EngineVars

NextTracker ==
  \/ TrackerUpsert
  \/ TrackerUpdateStatus
  \/ TrackerDelete
  \/ TrackerNeedsSync

SpecTracker == Init /\ [][NextTracker]_vars


(* ------------- synced_files as the table the statements act on ---------- *)
\* versions of a file's record, differing in every mutable column
NumVersions == 2
\* keys the statements are run with: two paths of one mapping and the same
\* path of another tenant
TableKeys == {<<"t1", "m1", 1>>, <<"t1", "m1", 2>>, <<"t2", "m1", 1>>}
\* new Date().toISOString() of updateFileStatus, later than every version's time
Now == 0

rowKey(r) == <<r.tenantId, r.mappingId, r.localPath>>

MutableColumns ==
  {"remotePath", "driveItemId", "fileHash", "fileSize", "localModifiedAt",
   "remoteModifiedAt", "syncedAt", "status", "errorMessage"}

\* the argument of upsertSyncedFile for key k in version v
fileVersion(k, v) ==
  [tenantId |-> k[1], mappingId |-> k[2], localPath |-> k[3],
   remotePath |-> <<v, k[3]>>, driveItemId |-> v,
   fileHash |-> calculateHash(v), fileSize |-> FileSize(v),
   localModifiedAt |-> v, remoteModifiedAt |-> v, syncedAt |-> v,
   status |-> IF v = 1 THEN "synced" ELSE IF v = 2 THEN "failed" ELSE "pending",
   errorMessage |-> IF v = 1 THEN "" ELSE IF v = 2 THEN "upload" ELSE "waiting"]

\* the upsert with error_message missing from its DO UPDATE SET list
insertOrUpdateKeepingError(t, file) ==
  IF \E i \in DOMAIN t : rowKey(t[i]) = rowKey(file)
  THEN [i \in DOMAIN t |->
          IF rowKey(t[i]) = rowKey(file)
          THEN [file EXCEPT !.errorMessage = t[i].errorMessage]
          ELSE t[i]]
  ELSE Append(t, file)

\* lines 108-124: INSERT ... ON CONFLICT(tenant_id, mapping_id, local_path) DO UPDATE SET
insertOrUpdate(t, file) ==
  IF \E i \in DOMAIN t : rowKey(t[i]) = rowKey(file)
  THEN [i \in DOMAIN t |-> IF rowKey(t[i]) = rowKey(file) THEN file ELSE t[i]]
  ELSE Append(t, file)

\* lines 154-155: UPDATE synced_files SET status, error_message, synced_at WHERE key
updateWhereKey(t, k, status, errorMessage, now) ==
  [i \in DOMAIN t |->
     IF rowKey(t[i]) = k
     THEN [t[i] EXCEPT !.status = status, !.errorMessage = errorMessage, !.syncedAt = now]
     ELSE t[i]]

\* line 178: DELETE FROM synced_files WHERE key
deleteWhereKey(t, k) == SelectSeq(t, LAMBDA r : rowKey(r) # k)

\* the rows of a key
rowsOf(t, k) == {i \in DOMAIN t : rowKey(t[i]) = k}

TableRest == <<fs, remote, ledger, job, pc, scanResult, filesToSync, idx, errors, processed,
               bytesTransferred, item, caught, runs, edited, fsTouched, sameFs,
               prevEnd, lastEnd, answer, calls, attempts, dry, phase,
               UploadVars, FolderVars, NameVars, CliVars, RaceVars, ServiceVars>>

\* upsertSyncedFile(file)
TableUpsert ==
  /\ \E k \in TableKeys, v \in 1..NumVersions :
       LET file == fileVersion(k, v)
           old == rowsOf(rows, k)
       IN  /\ rows' = insertOrUpdate(rows, file)
           /\ lastOp' = [op |-> "upsert", file |-> file,
                         existed |-> old # {},
                         allDiffer |-> /\ old # {}
                                       /\ \A i \in old : \A c \in MutableColumns :
                                            rows[i][c] # file[c]]
  /\ UNCHANGED TableRest

\* updateFileStatus(tenantId, mappingId, localPath, status, errorMessage)
TableUpdateStatus ==
  /\ \E k \in TableKeys, st \in {"pending", "failed"} :
       /\ rows' = updateWhereKey(rows, k, st, IF st = "failed" THEN "upload" ELSE "", Now)
       /\ lastOp' = [op |-> "update", key |-> k]
  /\ UNCHANGED TableRest

\* deleteSyncedFile(tenantId, mappingId, localPath)
TableDelete ==
  /\ \E k \in TableKeys :
       /\ rows' = deleteWhereKey(rows, k)
       /\ lastOp' = [op |-> "delete", key |-> k]
  /\ UNCHANGED TableRest

NextTable ==
  \/ TableUpsert
  \/ TableUpdateStatus
  \/ TableDelete

SpecTable == Init /\ [][NextTable]_vars

(* ----------------- sync run <tenant-id> and syncTenant ------------------- *)
\* most mappings a tenant is configured with
NumMappings == 2
\* --mapping was not given
NoOption == -1
NoOutput == [absent |-> TRUE]

\* the configurations of a tenant: the enabled flag of each mapping
MappingConfigs == UNION {[1..n -> BOOLEAN] : n \in 0..NumMappings}

\* indices of the enabled mappings, in configuration order
RECURSIVE enabledFrom(_, _)
enabledFrom(ms, i) ==
  IF i > Len(ms) THEN <<>>
  ELSE IF ms[i] THEN <<i>> \o enabledFrom(ms, i + 1)
  ELSE enabledFrom(ms, i + 1)

\* line 45: tenant.mappings.filter((m) => m.enabled)
enabledMappings(ms) == enabledFrom(ms, 1)

\* how a syncMapping call can end: it returns the job, completed, partial or
\* failed, or it rejects (the progress callback throws on the error event,
\* line 390, which is inside the catch block)
syncMappingOutcomes == {"completed", "partial", "failed", "rejected"}

CliRest == <<fs, remote, ledger, job, pc, scanResult, filesToSync, idx, errors, processed,
             bytesTransferred, item, caught, runs, edited, fsTouched, sameFs,
             prevEnd, lastEnd, answer, calls, attempts, dry, phase,
             UploadVars, FolderVars, NameVars, TableVars, RaceVars, ServiceVars>>

CliRestOfStatus == <<fs, remote, job, pc, scanResult, filesToSync, idx, errors, processed,
                     bytesTransferred, item, caught, runs, edited, fsTouched, sameFs,
                     prevEnd, lastEnd, calls, attempts, dry, phase,
                     UploadVars, FolderVars, NameVars, TableVars, RaceVars, ServiceVars>>

\* lines 27-125: sync run <tenant-id> [--mapping <index>] [--dry-run] up to the
\* call of syncTenant(tenant, onProgress)
SyncRunWith(ms, option, isDryRun) ==
  /\ cli.at = "idle" /\ tenantRun.at = "idle"
  /\ tenantMappings' = ms
  /\ LET enabled == enabledMappings(ms)
         index == option - 1
         invalid == option # NoOption /\ (index < 0 \/ index >= Len(ms))
         mappings == IF option # NoOption /\ ~invalid THEN <<index + 1>> ELSE enabled
     IN  IF Len(ms) = 0 \/ invalid \/ Len(mappings) = 0
         THEN /\ cli' = [at |-> "exit 1", mapping |-> option, dryRun |-> isDryRun,
                         mappings |-> mappings, scanned |-> <<>>]
              /\ UNCHANGED tenantRun
         ELSE IF isDryRun
         THEN /\ cli' = [at |-> "exit 0", mapping |-> option, dryRun |-> isDryRun,
                         mappings |-> mappings, scanned |-> mappings]
              /\ UNCHANGED tenantRun
         ELSE /\ cli' = [at |-> "syncing", mapping |-> option, dryRun |-> isDryRun,
                         mappings |-> mappings, scanned |-> <<>>]
              /\ tenantRun' = [at |-> "running", pos |-> 1, jobs |-> <<>>, synced |-> <<>>]
  /\ UNCHANGED statusOut
  /\ UNCHANGED CliRest

SyncRun ==
  \E ms \in MappingConfigs, option \in {NoOption} \cup (0..(NumMappings + 1)),
     isDryRun \in BOOLEAN :
    SyncRunWith(ms, option, isDryRun)

\* syncAll, or another caller of the engine, calls syncTenant(tenant, onProgress)
SyncTenantCall ==
  /\ cli.at = "idle" /\ tenantRun.at = "idle"
  /\ \E ms \in MappingConfigs : tenantMappings' = ms
  /\ tenantRun' = [at |-> "running", pos |-> 1, jobs |-> <<>>, synced |-> <<>>]
  /\ UNCHANGED <<cli, statusOut>>
  /\ UNCHANGED CliRest

\* lines 402-405: a disabled mapping is skipped
SyncTenantSkip ==
  /\ tenantRun.at = "running"
  /\ tenantRun.pos <= Len(tenantMappings)
  /\ ~tenantMappings[tenantRun.pos]
  /\ tenantRun' = [tenantRun EXCEPT !.pos = tenantRun.pos + 1]
  /\ UNCHANGED <<tenantMappings, cli, statusOut>>
  /\ UNCHANGED CliRest

\* lines 407-408: job = await this.syncMapping(tenant, mapping, onProgress); jobs.push(job)
SyncTenantMappingWith(outcome) ==
  /\ tenantRun.at = "running"
  /\ tenantRun.pos <= Len(tenantMappings)
  /\ tenantMappings[tenantRun.pos]
  /\ tenantRun' = IF outcome = "rejected"
           THEN [tenantRun EXCEPT !.at = "rejected", !.synced = Append(tenantRun.synced, tenantRun.pos)]
           ELSE [tenantRun EXCEPT !.pos = tenantRun.pos + 1,
                           !.synced = Append(tenantRun.synced, tenantRun.pos),
                           !.jobs = Append(tenantRun.jobs, [mapping |-> tenantRun.pos, status |-> outcome])]
  /\ UNCHANGED <<tenantMappings, cli, statusOut>>
  /\ UNCHANGED CliRest

SyncTenantMapping == \E outcome \in syncMappingOutcomes : SyncTenantMappingWith(outcome)

\* line 411: return jobs
SyncTenantReturn ==
  /\ tenantRun.at = "running"
  /\ tenantRun.pos > Len(tenantMappings)
  /\ tenantRun' = [tenantRun EXCEPT !.at = "returned"]
  /\ UNCHANGED <<tenantMappings, cli, statusOut>>
  /\ UNCHANGED CliRest

\* lines 127-154: the summary of the jobs, or the catch that exits with 1
SyncRunEnd ==
  /\ cli.at = "syncing"
  /\ tenantRun.at \in {"returned", "rejected"}
  /\ cli' = [cli EXCEPT !.at = IF tenantRun.at = "returned" THEN "exit 0" ELSE "exit 1"]
  /\ UNCHANGED <<tenantMappings, tenantRun, statusOut>>
  /\ UNCHANGED CliRest

NextTenant ==
  \/ SyncRun
  \/ SyncTenantCall
  \/ SyncTenantSkip
  \/ SyncTenantMapping
  \/ SyncTenantReturn
  \/ SyncRunEnd

SpecTenant == Init /\ [][NextTenant]_vars

(* ------------------------ status clear <tenant-id> ----------------------- *)
\* tenant ids given to the command: the configured ones and an unknown one
TenantArgs == Tenants \cup {"t3"}

\* lines 112-129: status clear <tenant-id> [--force]
StatusClearWith(tenantId, force) ==
  /\ statusOut = NoOutput
  /\ statusOut' = [tenantId |-> tenantId, force |-> force,
                   printed |-> IF tenantId \notin Tenants THEN "Tenant not found"
                               ELSE IF ~force THEN "Use --force to proceed."
                               ELSE "Sync history cleared.",
                   exit |-> IF tenantId \notin Tenants THEN 1 ELSE 0]
  /\ UNCHANGED <<ledger, answer>>
  /\ UNCHANGED <<tenantMappings, cli, tenantRun>>
  /\ UNCHANGED CliRestOfStatus

StatusClear == \E tenantId \in TenantArgs, force \in BOOLEAN : StatusClearWith(tenantId, force)

\* the command's process has ended
StatusExit ==
  /\ statusOut # NoOutput
  /\ statusOut' = NoOutput
  /\ UNCHANGED <<ledger, answer>>
  /\ UNCHANGED <<tenantMappings, cli, tenantRun>>
  /\ UNCHANGED CliRestOfStatus

NextStatus ==
  \/ TrackerUpsert
  \/ StatusClear
  \/ StatusExit

SpecStatus == Init /\ [][NextStatus]_vars

(* ---------- GraphClient.uploadFile and uploadLargeFile on their own ------- *)
\* SHAREPOINT.SMALL_FILE_THRESHOLD and SHAREPOINT.CHUNK_SIZE, in bytes
SMALL_FILE_THRESHOLD == 4 * 1024 * 1024
CHUNK_SIZE == 10 * 1024 * 1024

\* largest number of whole chunks in a content
MaxChunks == 3

\* content lengths: empty, one byte, around the threshold and around each
\* multiple of the chunk size
ContentSizes ==
  {0, 1}
  \cup {SMALL_FILE_THRESHOLD + d : d \in -1..1}
  \cup {k * CHUNK_SIZE + d : k \in 1..MaxChunks, d \in -1..1}

Min(a, b) == IF a < b THEN a ELSE b

\* the routing test with < in place of <=
usesSmallUploadBelow(len) == len < SMALL_FILE_THRESHOLD

\* line 434: content.length <= SHAREPOINT.SMALL_FILE_THRESHOLD
usesSmallUpload(len) == len <= SMALL_FILE_THRESHOLD

\* the upper bound of a range left unclamped
rangeEndUnclamped(done, chunkSize, total) == done + chunkSize - 1

\* line 402: Math.min(uploaded + chunkSize - 1, totalSize - 1)
rangeEnd(done, chunkSize, total) == Min(done + chunkSize - 1, total - 1)

UploadRest == <<fs, remote, ledger, job, pc, scanResult, filesToSync, idx, errors, processed,
                bytesTransferred, item, caught, runs, edited, fsTouched, sameFs,
                prevEnd, lastEnd, answer, calls, attempts, dry, phase, FolderVars, NameVars, More>>

\* a caller calls uploadFile with a content
UploadFileCall ==
  /\ upc = "idle"
  /\ \E len \in ContentSizes : totalSize' = len
  /\ route' = {"uploadFile"}
  /\ upc' = "route"
  /\ UNCHANGED <<uploaded, ranges, responses>>
  /\ UNCHANGED UploadRest

\* a caller calls uploadLargeFile itself
UploadLargeFileCall ==
  /\ upc = "idle"
  /\ \E len \in ContentSizes : totalSize' = len
  /\ route' = {"large"}
  /\ upc' = "session"
  /\ UNCHANGED <<uploaded, ranges, responses>>
  /\ UNCHANGED UploadRest

\* lines 434-438: uploadFile picks the method
UploadFileRoute ==
  /\ upc = "route"
  /\ IF usesSmallUpload(totalSize)
     THEN route' = route \cup {"small"} /\ upc' = "small"
     ELSE route' = route \cup {"large"} /\ upc' = "session"
  /\ UNCHANGED <<totalSize, uploaded, ranges, responses>>
  /\ UNCHANGED UploadRest

\* lines 305-324: the single PUT
UploadSmallFile ==
  /\ upc = "small"
  /\ \E ok \in BOOLEAN : upc' = IF ok THEN "returned" ELSE "thrown"
  /\ UNCHANGED <<totalSize, route, uploaded, ranges, responses>>
  /\ UNCHANGED UploadRest

\* lines 396-399: the upload session
CreateUploadSession ==
  /\ upc = "session"
  /\ \E ok \in BOOLEAN :
       /\ upc' = IF ok THEN "chunks" ELSE "thrown"
       /\ responses' = Append(responses, [request |-> "session",
                                          response |-> IF ok THEN "ok" ELSE "failed"])
  /\ uploaded' = 0
  /\ ranges' = <<>>
  /\ UNCHANGED <<totalSize, route>>
  /\ UNCHANGED UploadRest

\* line 405-411: what the chunk request's response carried
chunkResponse(outcome, last) ==
  [request |-> "chunk",
   response |-> IF outcome = "failed" THEN "failed"
                ELSE IF outcome = "answered" /\ last + 1 >= totalSize THEN "item"
                ELSE "none"]

\* the loop going on to the next chunk after a failed request
UploadChunkIgnoringFailure(outcome) ==
  /\ upc = "chunks"
  /\ uploaded < totalSize
  /\ LET last == rangeEnd(uploaded, CHUNK_SIZE, totalSize)
     IN  /\ ranges' = Append(ranges, <<uploaded, last>>)
         /\ responses' = Append(responses, chunkResponse(outcome, last))
         /\ uploaded' = last + 1
         /\ upc' = IF outcome = "answered" /\ last + 1 >= totalSize
                   THEN "returned" ELSE "chunks"
  /\ UNCHANGED <<totalSize, route>>
  /\ UNCHANGED UploadRest

\* lines 401-419: one pass of the loop; the request may fail, and the server
\* answers with the item once it holds the whole content (or, misbehaving,
\* without one)
UploadChunkWith(outcome) ==
  /\ upc = "chunks"
  /\ uploaded < totalSize
  /\ LET last == rangeEnd(uploaded, CHUNK_SIZE, totalSize)
     IN  /\ ranges' = Append(ranges, <<uploaded, last>>)
         /\ responses' = Append(responses, chunkResponse(outcome, last))
         /\ IF outcome = "failed"
            THEN uploaded' = uploaded /\ upc' = "thrown"
            ELSE /\ uploaded' = last + 1
                 /\ upc' = IF outcome = "answered" /\ last + 1 >= totalSize
                           THEN "returned" ELSE "chunks"
  /\ UNCHANGED <<totalSize, route>>
  /\ UNCHANGED UploadRest

UploadChunk == \E outcome \in {"answered", "failed", "noitem"} : UploadChunkWith(outcome)

\* line 421: the loop ended and no item was returned
UploadNoItem ==
  /\ upc = "chunks"
  /\ ~(uploaded < totalSize)
  /\ upc' = "thrown"
  /\ UNCHANGED <<totalSize, route, uploaded, ranges, responses>>
  /\ UNCHANGED UploadRest

NextUpload ==
  \/ UploadFileCall
  \/ UploadLargeFileCall
  \/ UploadFileRoute
  \/ UploadSmallFile
  \/ CreateUploadSession
  \/ UploadChunk
  \/ UploadNoItem

SpecUpload == Init /\ [][NextUpload]_vars

(* ------------------- GraphClient.sanitizeName on its own ----------------- *)
\* a name is the sequence of its characters
INVALID_CHARS == {"~", "#", "%", "&", "*", "{", "}", "\\", ":", "<", ">", "?", "/", "|", "\""}

Digits == {"0", "1", "2", "3", "4", "5", "6", "7", "8", "9"}

RESERVED_NAMES ==
  {<<".", "l", "o", "c", "k">>, <<"C", "O", "N">>, <<"P", "R", "N">>, <<"A", "U", "X">>,
   <<"N", "U", "L">>, <<"_", "v", "t", "i", "_">>,
   <<"d", "e", "s", "k", "t", "o", "p", ".", "i", "n", "i">>}
  \cup {<<"C", "O", "M", d>> : d \in Digits}
  \cup {<<"L", "P", "T", d>> : d \in Digits}

\* the length sanitizeName truncates to
MaxNameLength == 200
\* the longest name a directory entry can have
NAME_MAX == 255

LowerCase == <<"a", "b", "c", "d", "e", "f", "g", "h", "i", "j", "k", "l", "m",
               "n", "o", "p", "q", "r", "s", "t", "u", "v", "w", "x", "y", "z">>
UpperCase == <<"A", "B", "C", "D", "E", "F", "G", "H", "I", "J", "K", "L", "M",
               "N", "O", "P", "Q", "R", "S", "T", "U", "V", "W", "X", "Y", "Z">>

toUpperCase(n) ==
  [i \in DOMAIN n |->
     IF \E k \in DOMAIN LowerCase : LowerCase[k] = n[i]
     THEN UpperCase[CHOOSE k \in DOMAIN LowerCase : LowerCase[k] = n[i]]
     ELSE n[i]]

\* lines 487-489: every invalid character becomes an underscore
replaceInvalid(n) == [i \in DOMAIN n |-> IF n[i] \in INVALID_CHARS THEN "_" ELSE n[i]]

HasInvalidChar(n) == \E i \in DOMAIN n : n[i] \in INVALID_CHARS

RECURSIVE dropLeading(_, _)
dropLeading(n, chars) ==
  IF n # <<>> /\ Head(n) \in chars THEN dropLeading(Tail(n), chars) ELSE n

RECURSIVE dropTrailing(_, _)
dropTrailing(n, chars) ==
  IF n # <<>> /\ n[Len(n)] \in chars THEN dropTrailing(SubSeq(n, 1, Len(n) - 1), chars) ELSE n

\* String.prototype.trim
trim(n) == dropTrailing(dropLeading(n, {" "}), {" "})

\* line 492: trim(), then replace(/^\.+|\.+$/g, '')
trimSpacesAndDots(n) == dropTrailing(dropLeading(trim(n), {"."}), {"."})

\* lines 495-497: a reserved name gets an underscore in front
prefixReserved(n) ==
  IF \E r \in RESERVED_NAMES : toUpperCase(n) = toUpperCase(r) THEN <<"_">> \o n ELSE n

\* String.prototype.lastIndexOf('.'), counted from 0; -1 when there is no dot
lastIndexOfDot(n) ==
  IF \E i \in DOMAIN n : n[i] = "."
  THEN (CHOOSE i \in DOMAIN n : n[i] = "." /\ \A j \in DOMAIN n : n[j] = "." => j <= i) - 1
  ELSE -1

\* String.prototype.slice(0, end): a negative end counts from the end
sliceFromStart(n, end) ==
  IF end >= 0 THEN SubSeq(n, 1, Min(end, Len(n)))
  ELSE SubSeq(n, 1, IF Len(n) + end > 0 THEN Len(n) + end ELSE 0)

\* String.prototype.slice(start)
sliceToEnd(n, start) == SubSeq(n, start + 1, Len(n))

\* lines 500-508
truncate(n) ==
  IF Len(n) > MaxNameLength
  THEN LET ext == lastIndexOfDot(n)
       IN  IF ext > 0
           THEN LET extension == sliceToEnd(n, ext)
                IN  sliceFromStart(n, MaxNameLength - Len(extension)) \o extension
           ELSE sliceFromStart(n, MaxNameLength)
  ELSE n

\* lines 483-511
sanitizeName(n) == truncate(prefixReserved(trimSpacesAndDots(replaceInvalid(n))))

\* longest middle part of an input name
MaxMid == 2

Rep(c, k) == [i \in 1..k |-> c]

RECURSIVE SeqsUpTo(_, _)
SeqsUpTo(chars, k) ==
  IF k = 0 THEN {<<>>}
  ELSE LET shorter == SeqsUpTo(chars, k - 1)
       IN  shorter \cup {Append(q, c) : q \in shorter, c \in chars}

\* input names: a run of letters (none, one, or up to the truncation length), a
\* short middle with invalid characters, spaces and dots, and an extension (none,
\* short, or longer than the truncation length); and names that are reserved
Names ==
  {n \in {Rep("a", k) \o mid \o ext :
            k \in {0, 1} \cup (MaxNameLength - 3 .. MaxNameLength),
            mid \in SeqsUpTo({"a", "#", ".", " ", "/"}, MaxMid),
            ext \in {<<>>, <<".", "t", "x", "t">>,
                     <<".">> \o Rep("x", MaxNameLength - 1),
                     <<".">> \o Rep("x", MaxNameLength + 10)}} :
     Len(n) <= NAME_MAX}
  \cup {<<"C", "O", "N">>, <<"c", "o", "n">>, <<"n", "u", "l">>, <<"L", "P", "T", "1">>,
        <<".", "l", "o", "c", "k">>, <<"c", "o", "n", ":">>}

NameRest == <<fs, remote, ledger, job, pc, scanResult, filesToSync, idx, errors, processed,
              bytesTransferred, item, caught, runs, edited, fsTouched, sameFs,
              prevEnd, lastEnd, answer, calls, attempts, dry, phase, UploadVars, FolderVars,
              More>>

\* a caller calls sanitizeName with a name
SanitizeNameCall ==
  /\ name = <<>>
  /\ name' \in Names \ {<<>>}
  /\ UNCHANGED sanitized
  /\ UNCHANGED NameRest

\* sanitizeName returns
SanitizeNameReturn ==
  /\ name # <<>>
  /\ sanitized = NoName
  /\ sanitized' = [value |-> sanitizeName(name)]
  /\ UNCHANGED name
  /\ UNCHANGED NameRest

NextName ==
  \/ SanitizeNameCall
  \/ SanitizeNameReturn

SpecName == Init /\ [][NextName]_vars

(* ------------------- GraphClient.ensureFolder on its own ----------------- *)
\* folder names of the local tree: a plain one, one with an invalid character
\* and a reserved one
FolderParts == {<<"a">>, <<"R", "&", "D">>, <<"C", "O", "N">>}

\* deepest folder path, and number of ensureFolder calls
MaxDepth == 2
MaxEnsureCalls == 2

RECURSIVE PathsUpTo(_)
PathsUpTo(k) ==
  IF k = 0 THEN {<<>>}
  ELSE LET shorter == PathsUpTo(k - 1)
       IN  shorter \cup {Append(q, part) : q \in shorter, part \in FolderParts}

\* folderPath.split('/').filter(Boolean); the empty sequence is "" or "/"
FolderPaths == PathsUpTo(MaxDepth)

FolderRest == <<fs, remote, ledger, job, pc, scanResult, filesToSync, idx, errors, processed,
                bytesTransferred, item, caught, runs, edited, fsTouched, sameFs,
                prevEnd, lastEnd, answer, calls, attempts, dry, phase, UploadVars, NameVars,
                More>>

\* lines 274-276 and 262: GET /drives/{id}/root:{currentPath}; a request is the
\* segments of its path (and body name) as sent and the names they come from
lookupRequest(currentPath) ==
  [kind |-> "lookup", sent |-> currentPath, original |-> currentPath]

\* lines 280-290: POST {parentPath}:/children with name sanitizedPart
createRequest(currentPath) ==
  LET parentPath == SubSeq(currentPath, 1, Len(currentPath) - 1)
      part == currentPath[Len(currentPath)]
  IN  [kind |-> "create", sent |-> Append(parentPath, sanitizeName(part)),
       original |-> currentPath]

\* lines 311-315 and 335-339: the endpoint {parentPath}/{sanitizedName} of
\* uploadSmallFile ("upload") and createUploadSession ("session")
fileRequest(kind, parentPath, fileName) ==
  [kind |-> kind, sent |-> Append(parentPath, sanitizeName(fileName)),
   original |-> Append(parentPath, fileName)]

\* a caller calls ensureFolder(driveId, folderPath)
EnsureFolderCall ==
  /\ efOut # "running"
  /\ efCalls < MaxEnsureCalls
  /\ efCalls' = efCalls + 1
  /\ \E path \in FolderPaths :
       /\ efPath' = path
       /\ efAgain' = (path \in ensured)
  /\ efPos' = 0
  /\ efCreated' = 0
  /\ efOut' = "running"
  /\ requests' = <<>>
  /\ UNCHANGED <<folders, ensured>>
  /\ UNCHANGED FolderRest

\* lines 260-263: the root is fetched and nothing is created
EnsureFolderRoot ==
  /\ efOut = "running"
  /\ efPath = <<>>
  /\ \E ok \in BOOLEAN :
       /\ efOut' = IF ok THEN "returned" ELSE "thrown: request failed"
       /\ ensured' = IF ok THEN ensured \cup {efPath} ELSE ensured
  /\ requests' = <<lookupRequest(<<>>)>>
  /\ UNCHANGED <<folders, efPath, efPos, efCreated, efAgain, efCalls>>
  /\ UNCHANGED FolderRest

\* what the call becomes once part number pos is in place
afterPart(pos) == IF pos = Len(efPath) THEN "returned" ELSE "running"

\* lines 269-297: one pass of the loop. The drive finds an item by the names
\* asked for; a name it cannot hold is not found (404) or refused (400); the
\* create request names the sanitized part under the parent path as asked for,
\* and fails when the parent is not found or the name is taken
EnsureFolderPartWith(outcome) ==
  /\ efOut = "running"
  /\ efPos < Len(efPath)
  /\ LET part == efPath[efPos + 1]
         currentPath == SubSeq(efPath, 1, efPos + 1)
         parentPath == SubSeq(efPath, 1, efPos)
         sanitizedPart == sanitizeName(part)
         created == Append(parentPath, sanitizedPart)
     IN  /\ outcome = "refused" => HasInvalidChar(part)
         /\ requests' = IF outcome \in {"request failed", "refused"} \/ currentPath \in folders
                        THEN <<lookupRequest(currentPath)>>
                        ELSE <<lookupRequest(currentPath), createRequest(currentPath)>>
         /\ IF outcome \in {"request failed", "refused"}
            THEN /\ efOut' = "thrown: request failed"
                 /\ UNCHANGED <<folders, efPos, efCreated, ensured>>
            ELSE IF currentPath \in folders
            THEN /\ efPos' = efPos + 1
                 /\ efOut' = afterPart(efPos + 1)
                 /\ ensured' = IF afterPart(efPos + 1) = "returned"
                               THEN ensured \cup {efPath} ELSE ensured
                 /\ UNCHANGED <<folders, efCreated>>
            ELSE /\ efCreated' = efCreated + 1
                 /\ IF outcome = "create failed"
                    THEN /\ efOut' = "thrown: request failed"
                         /\ UNCHANGED <<folders, efPos, ensured>>
                    ELSE IF parentPath # <<>> /\ parentPath \notin folders
                    THEN /\ efOut' = "thrown: parent not found"
                         /\ UNCHANGED <<folders, efPos, ensured>>
                    ELSE IF created \in folders
                    THEN /\ efOut' = "thrown: name already exists"
                         /\ UNCHANGED <<folders, efPos, ensured>>
                    ELSE /\ folders' = folders \cup {created}
                         /\ efPos' = efPos + 1
                         /\ efOut' = afterPart(efPos + 1)
                         /\ ensured' = IF afterPart(efPos + 1) = "returned"
                                       THEN ensured \cup {efPath} ELSE ensured
  /\ UNCHANGED <<efPath, efAgain, efCalls>>
  /\ UNCHANGED FolderRest

EnsureFolderPart ==
  \E outcome \in {"answered", "request failed", "refused", "create failed"} :
    EnsureFolderPartWith(outcome)

\* uploadSmallFile or createUploadSession issues its request: the engine uploads
\* a file into the folder it has just ensured (lines 304-320 of the engine pass
\* the same remoteDir to both), or into the root without an ensureFolder call
FileRequest ==
  /\ efOut \in {"idle", "returned"}
  /\ \E kind \in {"upload", "session"}, fileName \in FolderParts :
       requests' = <<fileRequest(kind, efPath, fileName)>>
  /\ UNCHANGED <<folders, efPath, efPos, efOut, efCreated, efAgain, efCalls, ensured>>
  /\ UNCHANGED FolderRest

NextFolder ==
  \/ EnsureFolderCall
  \/ EnsureFolderRoot
  \/ EnsureFolderPart
  \/ FileRequest

SpecFolder == Init /\ [][NextFolder]_vars

(* ------------- two runs calling ensureFolder on one drive --------------- *)
\* the two concurrent sync runs
Racers == {1, 2}

\* the conflict behaviour with which the drive gives the new folder another name
conflictBehaviorRename == "rename"

\* line 289: '@microsoft.graph.conflictBehavior': 'fail'
conflictBehavior == "fail"

\* the name the drive gives a folder whose name is taken, under 'rename'
renamed(path) == Append(path, <<"1">>)

\* the file a run is uploading into the folder (any scanned file)
raceFile(c) ==
  [path |-> c, hash |-> calculateHash(1), size |-> FileSize(1), modifiedAt |-> 1]

RaceRest == <<fs, remote, ledger, job, pc, scanResult, filesToSync, idx, errors, processed,
              bytesTransferred, item, caught, runs, edited, fsTouched, sameFs,
              prevEnd, lastEnd, answer, calls, attempts, dry, phase,
              UploadVars, NameVars, TableVars, CliVars, ServiceVars,
              efPath, efPos, efOut, efCreated, efAgain, efCalls, ensured, requests>>

\* line 305 of the engine: a run calls ensureFolder(drive.id, remoteDir)
RaceCall(c) ==
  /\ racers[c].at = "idle"
  /\ \E path \in FolderPaths \ {<<>>} :
       racers' = [racers EXCEPT ![c] = [at |-> "lookup", path |-> path, pos |-> 0,
                                        recorded |-> "none"]]
  /\ UNCHANGED <<folders, creates>>
  /\ UNCHANGED RaceRest

\* lines 273-278, 293-295: the GET of the current path; 404 leads to the create,
\* another failure is thrown
RaceLookupWith(c, outcome) ==
  /\ racers[c].at = "lookup"
  /\ LET r == racers[c]
         currentPath == SubSeq(r.path, 1, r.pos + 1)
     IN  racers' = [racers EXCEPT ![c] =
           IF outcome = "request failed" THEN [r EXCEPT !.at = "thrown: request failed"]
           ELSE IF currentPath \in folders
           THEN [r EXCEPT !.pos = r.pos + 1,
                          !.at = IF r.pos + 1 = Len(r.path) THEN "returned" ELSE "lookup"]
           ELSE [r EXCEPT !.at = "create"]]
  /\ UNCHANGED <<folders, creates>>
  /\ UNCHANGED RaceRest

RaceLookup(c) == \E outcome \in {"answered", "request failed"} : RaceLookupWith(c, outcome)

\* the folder a run's create request asks for
raceTarget(r) == Append(SubSeq(r.path, 1, r.pos), sanitizeName(r.path[r.pos + 1]))

\* lines 280-290: the POST of the folder, which the drive carries out atomically
\* under the request's conflict behaviour
RaceCreateUnder(c, behaviour) ==
  /\ racers[c].at = "create"
  /\ LET r == racers[c]
         parentPath == SubSeq(r.path, 1, r.pos)
         target == raceTarget(r)
         next == [r EXCEPT !.pos = r.pos + 1,
                           !.at = IF r.pos + 1 = Len(r.path) THEN "returned" ELSE "lookup"]
     IN  IF parentPath # <<>> /\ parentPath \notin folders
         THEN /\ racers' = [racers EXCEPT ![c] = [r EXCEPT !.at = "thrown: parent not found"]]
              /\ UNCHANGED <<folders, creates>>
         ELSE IF target \in folders /\ behaviour = "fail"
         THEN /\ racers' = [racers EXCEPT ![c] = [r EXCEPT !.at = "thrown: name already exists"]]
              /\ UNCHANGED <<folders, creates>>
         ELSE /\ folders' = folders \cup {IF target \in folders THEN renamed(target) ELSE target}
              /\ creates' = Append(creates, [by |-> c, asked |-> target])
              /\ racers' = [racers EXCEPT ![c] = next]
  /\ UNCHANGED RaceRest

RaceCreate(c) == RaceCreateUnder(c, conflictBehavior)

\* lines 342-365 of the engine: the throw of ensureFolder is caught by the
\* file's catch block, which records the file
RaceCatch(c) ==
  /\ racers[c].at \in {"thrown: request failed", "thrown: parent not found",
                       "thrown: name already exists"}
  /\ racers[c].recorded = "none"
  /\ racers' = [racers EXCEPT ![c].recorded = failedRecord(raceFile(c), racers[c].at).status]
  /\ UNCHANGED <<folders, creates>>
  /\ UNCHANGED RaceRest

NextRace ==
  \/ \E c \in Racers : RaceCall(c)
  \/ \E c \in Racers : RaceLookup(c)
  \/ \E c \in Racers : RaceCreate(c)
  \/ \E c \in Racers : RaceCatch(c)

SpecRace == Init /\ [][NextRace]_vars

(* ------------- FileScanner.scanDirectory and its filters ---------------- *)
\* entries of the directory scanned
NumEntries == 2

\* an optional number of FileFilters that is not given
NotSet == -1

\* file names as stem and extension; glob patterns of the same shape, "*" for any
FileNames == [stem : {"a", "b"}, ext : {"txt", "tmp"}]
Patterns == {[stem |-> "*", ext |-> "txt"], [stem |-> "a", ext |-> "*"]}
EntrySizes == {0, 10, 20}

\* minimatch(relativePath, pattern, { matchBase: true }) for these patterns
minimatch(relativePath, pattern) ==
  /\ pattern.stem = "*" \/ pattern.stem = relativePath.stem
  /\ pattern.ext = "*" \/ pattern.ext = relativePath.ext

\* a number of the filters in a condition: undefined and 0 are falsy
Truthy(n) == n # NotSet /\ n # 0

\* lines 37-69
matchesFilters(relativePath, fileSize, filters) ==
  IF Truthy(filters.maxFileSize) /\ fileSize > filters.maxFileSize THEN FALSE
  ELSE IF Truthy(filters.minFileSize) /\ fileSize < filters.minFileSize THEN FALSE
  ELSE IF filters.include # {}
          /\ ~\E pattern \in filters.include : minimatch(relativePath, pattern) THEN FALSE
  ELSE IF filters.exclude # {}
          /\ \E pattern \in filters.exclude : minimatch(relativePath, pattern) THEN FALSE
  ELSE TRUE

\* lines 126-154, for a directory of regular files: stat, the filters, scanFile,
\* the push and the callback; a file that cannot be read is logged and skipped
RECURSIVE scanEntries(_, _)
scanEntries(entries, filters) ==
  IF entries = <<>> THEN [files |-> <<>>, onFile |-> <<>>]
  ELSE LET entry == Head(entries)
           rest == scanEntries(Tail(entries), filters)
       IN  IF entry.readable /\ matchesFilters(entry.name, entry.size, filters)
           THEN [files |-> <<[name |-> entry.name, size |-> entry.size]>> \o rest.files,
                 onFile |-> <<entry.name>> \o rest.onFile]
           ELSE rest

\* the listings readdir can return: distinct names, each with a size, readable or not
Listings ==
  UNION {{l \in [1..n -> [name : FileNames, size : EntrySizes, readable : BOOLEAN]] :
            \A i, j \in 1..n : i # j => l[i].name # l[j].name} : n \in 0..NumEntries}

FileFilters ==
  [include : SUBSET Patterns, exclude : SUBSET Patterns,
   maxFileSize : {NotSet, 0, 10}, minFileSize : {NotSet, 0, 20}]

ScanRest == <<fs, remote, ledger, job, pc, scanResult, filesToSync, idx, errors, processed,
              bytesTransferred, item, caught, runs, edited, fsTouched, sameFs,
              prevEnd, lastEnd, answer, calls, attempts, dry, phase,
              UploadVars, FolderVars, NameVars, TableVars, CliVars, RaceVars,
              auth, enrol, issued>>

\* a caller calls scanDirectory(dirPath, basePath, filters, onFile)
ScanDirectoryCall ==
  /\ walk.at = "idle"
  /\ \E entries \in Listings, filters \in FileFilters :
       LET result == scanEntries(entries, filters)
       IN  walk' = [at |-> "returned", entries |-> entries, filters |-> filters,
                    files |-> result.files, onFile |-> result.onFile]
  /\ UNCHANGED ScanRest

\* the caller takes the result
ScanDirectoryReturn ==
  /\ walk.at = "returned"
  /\ walk' = [at |-> "idle", entries |-> <<>>,
              filters |-> [include |-> {}, exclude |-> {}, maxFileSize |-> NotSet,
                           minFileSize |-> NotSet],
              files |-> <<>>, onFile |-> <<>>]
  /\ UNCHANGED ScanRest

NextScan == ScanDirectoryCall \/ ScanDirectoryReturn

SpecScan == Init /\ [][NextScan]_vars

(* ---------------- AuthManager.getAccessToken for one tenant -------------- *)
Callers == 1..NumCallers

\* line 60: cached && cached.expiresAt > new Date()
cacheHit(cached) == cached.state = "valid"

\* acquireTokenByClientCredential requests not yet answered
inFlight == Cardinality({c \in Callers : auth.callers[c].at = "awaiting"})

AuthRest == <<fs, remote, ledger, job, pc, scanResult, filesToSync, idx, errors, processed,
              bytesTransferred, item, caught, runs, edited, fsTouched, sameFs,
              prevEnd, lastEnd, answer, calls, attempts, dry, phase,
              UploadVars, FolderVars, NameVars, TableVars, CliVars, RaceVars,
              walk, enrol, issued>>

\* lines 57-72: the cache test, then the request, up to the await
GetAccessTokenCall(c) ==
  /\ auth.callers[c].at = "idle"
  /\ IF cacheHit(auth.tokenCache)
     THEN auth' = [auth EXCEPT !.callers[c] = [at |-> "returned",
                                               token |-> auth.tokenCache.accessToken]]
     ELSE /\ auth.acquired < MaxAcquisitions
          /\ auth' = [auth EXCEPT !.callers[c] = [at |-> "awaiting", token |-> 0],
                                  !.acquired = auth.acquired + 1,
                                  !.issuedAt = Append(auth.issuedAt, inFlight)]
  /\ UNCHANGED AuthRest

\* lines 74-90: the answer of the request; a token is cached and returned, no
\* token or a rejection is thrown as 'Authentication failed'
AcquireTokenAnswer(c, ok) ==
  /\ auth.callers[c].at = "awaiting"
  /\ IF ok
     THEN auth' = [auth EXCEPT !.tokenCache = [accessToken |-> auth.minted + 1,
                                               state |-> "valid"],
                               !.minted = auth.minted + 1,
                               !.callers[c] = [at |-> "returned", token |-> auth.minted + 1]]
     ELSE auth' = [auth EXCEPT !.callers[c] = [at |-> "threw", token |-> 0]]
  /\ UNCHANGED AuthRest

\* the caller goes on
GetAccessTokenDone(c) ==
  /\ auth.callers[c].at \in {"returned", "threw"}
  /\ auth' = [auth EXCEPT !.callers[c] = [at |-> "idle", token |-> 0]]
  /\ UNCHANGED AuthRest

\* time passes expiresAt
TokenExpires ==
  /\ auth.tokenCache.state = "valid"
  /\ auth' = [auth EXCEPT !.tokenCache.state = "expired"]
  /\ UNCHANGED AuthRest

\* lines 108-122: clearCache(tenantId)
clearCache ==
  /\ auth.tokenCache.state # "none"
  /\ auth' = [auth EXCEPT !.tokenCache = [accessToken |-> 0, state |-> "none"]]
  /\ UNCHANGED AuthRest

NextAuth ==
  \/ \E c \in Callers : GetAccessTokenCall(c)
  \/ \E c \in Callers, ok \in BOOLEAN : AcquireTokenAnswer(c, ok)
  \/ \E c \in Callers : GetAccessTokenDone(c)
  \/ TokenExpires
  \/ clearCache

SpecAuth == Init /\ [][NextAuth]_vars

(* ------------- EnrollmentService.enroll and the two stores --------------- *)
LicenseKeys == {"k1", "k2"}
\* tenant names, as characters: "A", "a!" and "b"
TenantNames == {<<"A">>, <<"a", "!">>, <<"b">>}
NoLicense == [stored |-> FALSE, activated |-> FALSE, tenantId |-> <<>>]

toLowerCase(n) ==
  [i \in DOMAIN n |->
     IF \E k \in DOMAIN UpperCase : UpperCase[k] = n[i]
     THEN LowerCase[CHOOSE k \in DOMAIN UpperCase : UpperCase[k] = n[i]]
     ELSE n[i]]

SlugChar(ch) == (\E k \in DOMAIN LowerCase : LowerCase[k] = ch) \/ ch \in Digits

\* .replace(/[^a-z0-9]+/g, '-'): every run of other characters becomes one '-'
RECURSIVE replaceRuns(_)
replaceRuns(n) ==
  IF n = <<>> THEN <<>>
  ELSE IF SlugChar(Head(n)) THEN <<Head(n)>> \o replaceRuns(Tail(n))
  ELSE IF Len(n) > 1 /\ ~SlugChar(n[2]) THEN replaceRuns(Tail(n))
  ELSE <<"-">> \o replaceRuns(Tail(n))

\* .replace(/^-|-$/g, '')
trimDashes(n) ==
  LET a == IF n # <<>> /\ Head(n) = "-" THEN Tail(n) ELSE n
  IN  IF a # <<>> /\ a[Len(a)] = "-" THEN SubSeq(a, 1, Len(a) - 1) ELSE a

\* lines 255-258 of addTenant: the id generated from the name
tenantIdOf(tenantName) == trimDashes(replaceRuns(toLowerCase(tenantName)))

\* lines 40-93: enroll(request), with addTenant (249-279) and activateLicense
\* (license.ts 248-273) as it calls them; keyValid is what validateSignedKey
\* says of the key at the time of the call
enroll(tenants, licenses, licenseKey, tenantName, keyValid, azureValid, authSuccess) ==
  LET license == licenses[licenseKey]
      id == tenantIdOf(tenantName)
      added == tenants \cup {id}
      failed(ts, error) == [tenants |-> ts, licenses |-> licenses,
                            result |-> [success |-> FALSE, tenantId |-> <<>>, error |-> error]]
  IN  IF ~license.stored /\ ~keyValid THEN failed(tenants, "Invalid license key")
      ELSE IF license.stored /\ license.activated THEN failed(tenants, "already activated")
      ELSE IF ~azureValid THEN failed(tenants, "Invalid Azure configuration")
      ELSE IF ~authSuccess THEN failed(tenants, "authentication failed")
      ELSE IF id \in tenants THEN failed(tenants, "Enrollment failed: tenant exists")
      ELSE IF ~license.stored THEN failed(added, "Enrollment failed: License not found")
      ELSE IF ~keyValid THEN failed(added, "Enrollment failed: Invalid license")
      ELSE [tenants |-> added,
            licenses |-> [licenses EXCEPT ![licenseKey] =
                            [stored |-> TRUE, activated |-> TRUE, tenantId |-> id]],
            result |-> [success |-> TRUE, tenantId |-> id, error |-> ""]]

EnrolRest == <<fs, remote, ledger, job, pc, scanResult, filesToSync, idx, errors, processed,
               bytesTransferred, item, caught, runs, edited, fsTouched, sameFs,
               prevEnd, lastEnd, answer, calls, attempts, dry, phase,
               UploadVars, FolderVars, NameVars, TableVars, CliVars, RaceVars,
               walk, auth, issued>>

\* license.ts lines 202-229: createLicense stores a license not yet activated
CreateLicense ==
  /\ enrol.at = "idle"
  /\ \E k \in LicenseKeys :
       /\ ~enrol.licenses[k].stored
       /\ enrol' = [enrol EXCEPT !.licenses[k] =
                      [stored |-> TRUE, activated |-> FALSE, tenantId |-> <<>>]]
  /\ UNCHANGED EnrolRest

\* a client enrolls
Enroll ==
  /\ enrol.at = "idle"
  /\ \E licenseKey \in LicenseKeys, tenantName \in TenantNames,
        keyValid \in BOOLEAN, azureValid \in BOOLEAN, authSuccess \in BOOLEAN :
       LET out == enroll(enrol.tenants, enrol.licenses, licenseKey, tenantName,
                         keyValid, azureValid, authSuccess)
       IN  enrol' = [at |-> "returned", tenants |-> out.tenants, licenses |-> out.licenses,
                     before |-> [tenants |-> enrol.tenants, licenses |-> enrol.licenses],
                     licenseKey |-> licenseKey, result |-> out.result]
  /\ UNCHANGED EnrolRest

\* the caller takes the result
EnrollReturn ==
  /\ enrol.at = "returned"
  /\ enrol' = [enrol EXCEPT !.at = "idle",
                            !.before = [tenants |-> {}, licenses |-> <<>>],
                            !.licenseKey = "",
                            !.result = [success |-> FALSE, tenantId |-> <<>>, error |-> ""]]
  /\ UNCHANGED EnrolRest

NextEnrol == CreateLicense \/ Enroll \/ EnrollReturn

SpecEnrol == Init /\ [][NextEnrol]_vars

(* -------- LicenseManager: createSignedKey and validateSignedKey ---------- *)
\* characters of the truncated signature (8 in the code)
SigLen == 2

LicenseTiers == {<<"s", "t", "a", "r", "t", "e", "r">>,
                 <<"p", "r", "o", "f", "e", "s", "s", "i", "o", "n", "a", "l">>,
                 <<"e", "n", "t", "e", "r", "p", "r", "i", "s", "e">>}

\* the payload of a key: tier letter, creation day, days to expiry, random part
Payloads == [t : {"s", "p", "e"}, c : {0}, x : {0, 1}, r : {"0", "f"}]

\* Buffer.from(JSON.stringify(payload)).toString('base64url'): letters and
\* digits only, as the JSON text is ASCII without '>', '?' and '~'
base64url(payload) == <<payload.t, IF payload.x = 0 THEN "A" ELSE "B", payload.r>>

\* JSON.parse(Buffer.from(data, 'base64url').toString())
decodePayload(data) == CHOOSE payload \in Payloads : base64url(payload) = data

\* what digest('base64url').substring(0, 8) can hold: the base64url alphabet
\* has letters, digits, '-' and '_'
Signatures == [1..SigLen -> {"A", "-", "_"}]

\* key.split('-')
RECURSIVE split(_)
split(s) ==
  IF \A i \in DOMAIN s : s[i] # "-" THEN <<s>>
  ELSE LET at == CHOOSE i \in DOMAIN s : s[i] = "-" /\ \A j \in 1..(i - 1) : s[j] # "-"
       IN  <<SubSeq(s, 1, at - 1)>> \o split(SubSeq(s, at + 1, Len(s)))

\* lines 126-143; signature is the truncated HMAC of data under LICENSE_SECRET
createSignedKey(tier, data, signature) ==
  <<"U", "C", "-">> \o toUpperCase(SubSeq(tier, 1, 3)) \o <<"-">> \o data \o <<"-">> \o signature

Invalid(error) == [valid |-> FALSE, tier |-> <<>>, error |-> error]

\* lines 148-197; hmac maps the data signed so far to their truncated HMAC
validateSignedKey(key, hmac, now) ==
  LET parts == split(key)
  IN  IF Len(parts) # 4 \/ parts[1] # <<"U", "C">> THEN Invalid("Invalid key format")
      ELSE LET tierCode == toLowerCase(parts[2])
               data == parts[3]
               providedSig == parts[4]
           IN  IF data \notin DOMAIN hmac \/ providedSig # hmac[data]
               THEN Invalid("Invalid signature")
               ELSE LET payload == decodePayload(data)
                        tiers == {tier \in LicenseTiers : SubSeq(tier, 1, 3) = tierCode}
                    IN  IF tiers = {} THEN Invalid("Invalid tier")
                        ELSE IF payload.x > 0 /\ payload.c + payload.x < now
                        THEN Invalid("License expired")
                        ELSE [valid |-> TRUE, tier |-> CHOOSE tier \in tiers : TRUE,
                              error |-> ""]

KeyRest == <<fs, remote, ledger, job, pc, scanResult, filesToSync, idx, errors, processed,
             bytesTransferred, item, caught, runs, edited, fsTouched, sameFs,
             prevEnd, lastEnd, answer, calls, attempts, dry, phase,
             UploadVars, FolderVars, NameVars, TableVars, CliVars, RaceVars,
             walk, auth, enrol>>

\* the HMAC of the one data signed
hmacOf(k) == [d \in {k.data} |-> k.signature]

\* lines 202-229: createLicense(clientName, clientEmail, tier, expiresInDays)
CreateSignedLicense ==
  /\ issued.at = "none"
  /\ \E tier \in LicenseTiers, expiresInDays \in {0, 1}, r \in {"0", "f"},
        signature \in Signatures :
       LET data == base64url([t |-> tier[1], c |-> 0, x |-> expiresInDays, r |-> r])
       IN  issued' = [at |-> "created", tier |-> tier, data |-> data,
                      signature |-> signature,
                      key |-> createSignedKey(tier, data, signature),
                      expiresInDays |-> expiresInDays, now |-> 0,
                      validation |-> Invalid(""), activated |-> FALSE]
  /\ UNCHANGED KeyRest

\* validateSignedKey(key) on day now
ValidateSignedKey ==
  /\ issued.at = "created"
  /\ \E now \in {0, 1, 2} :
       issued' = [issued EXCEPT !.at = "validated", !.now = now,
                                !.validation = validateSignedKey(issued.key, hmacOf(issued), now)]
  /\ UNCHANGED KeyRest

\* lines 248-273: activateLicense(key, tenantId) of the stored, not activated license
ActivateLicense ==
  /\ issued.at = "created"
  /\ \E now \in {0, 1, 2} :
       LET validation == validateSignedKey(issued.key, hmacOf(issued), now)
       IN  issued' = [issued EXCEPT !.at = IF validation.valid THEN "activated" ELSE "threw",
                                    !.now = now,
                                    !.validation = validation,
                                    !.activated = validation.valid]
  /\ UNCHANGED KeyRest

\* the next license
ForgetKey ==
  /\ issued.at \in {"validated", "activated", "threw"}
  /\ issued' = [at |-> "none", tier |-> <<>>, data |-> <<>>, signature |-> <<>>,
                key |-> <<>>, expiresInDays |-> 0, now |-> 0,
                validation |-> Invalid(""), activated |-> FALSE]
  /\ UNCHANGED KeyRest

NextKey == CreateSignedLicense \/ ValidateSignedKey \/ ActivateLicense \/ ForgetKey

SpecKey == Init /\ [][NextKey]_vars

(* ------------------------------ claims --------------------------------- *)
Key(p) == <<TenantId, MappingId, p>>
Rec(p) == ledger[Key(p)]
ScannedPaths == {scanResult[i].path : i \in DOMAIN scanResult}
ToSyncPaths == {filesToSync[i].path : i \in DOMAIN filesToSync}
\* the diff has just been taken: the ledger is the one the diff read
AfterDiff == pc \in {"zero", "connect"}
\* the run is past its diff
PastDiff == pc \notin {"idle", "start", "diff"}
InLoop == pc \in {"file_begin", "file_upload", "file_record", "file_catch"}
\* completeJob of line 373 has just been applied
JustFinalized == pc = "complete_event" /\ filesToSync # <<>>

\* C1: needsSync returns true exactly when the key has no row, or its row is
\* failed, or the row's hash differs from currentHash; false otherwise.
C1_NeedsSyncContract ==
  answer # NoRec =>
    LET row == ledger[answer.key]
    IN  answer.result =
          (row = NoRec \/ row.status = "failed" \/ row.fileHash # answer.hash)

\* a row with equal hash and status pending was asked about and answered false
C1_Witness ==
  /\ answer # NoRec
  /\ ledger[answer.key] # NoRec
  /\ ledger[answer.key].status = "pending"
  /\ ledger[answer.key].fileHash = answer.hash
  /\ answer.result = FALSE

\* C2 (as amended): a run that follows a run whose every file needing sync was
\* uploaded and recorded synced, with no filesystem change since that run's scan,
\* finds nothing to sync and uploads nothing.
C2_IdempotentAfterCleanRun ==
  (PastDiff /\ prevEnd = "clean" /\ sameFs) =>
    /\ filesToSync = <<>>
    /\ job.filesTotal = 0
    /\ ~InLoop /\ pc # "connect" /\ pc # "finalize"

\* the second run stands at its zero-work exit after a first run that uploaded files
C2_Witness ==
  /\ pc = "zero" /\ prevEnd = "clean" /\ sameFs
  /\ \A p \in Paths : Rec(p) # NoRec /\ Rec(p).status = "synced" /\ remote[p] # NoItem

\* C2 (as claimed): any run that follows a run that returned, with no filesystem
\* change in between, finds nothing to sync.
C2_Original ==
  (PastDiff /\ prevEnd \in {"clean", "dirty", "aborted"} /\ sameFs) => filesToSync = <<>>

\* C3: a row becomes synced only in the record step of a run whose upload of that
\* path returned an item, and every synced row's path was received by the remote,
\* process crashes included.
C3_SyncedOnlyAfterUpload ==
  /\ [](\A p \in Paths : (Rec(p) # NoRec /\ Rec(p).status = "synced") => remote[p] # NoItem)
  /\ [][\A p \in Paths :
          (ledger'[Key(p)] # ledger[Key(p)] /\ ledger'[Key(p)] # NoRec
             /\ ledger'[Key(p)].status = "synced")
          => (pc = "file_record" /\ item # NoItem /\ item.id = p /\ remote[p] # NoItem)]_vars

\* after a crash one path is synced and another was uploaded but never recorded
C3_Witness ==
  /\ pc = "idle" /\ lastEnd = "crashed"
  /\ \E p, q \in Paths :
       /\ Rec(p) # NoRec /\ Rec(p).status = "synced"
       /\ Rec(q) = NoRec /\ remote[q] # NoItem

\* C4: a file that fails in a run is recorded failed with its scanned digest, the
\* next diff selects every scanned file whose row is failed even when its digest
\* is unchanged, and a run that finishes its loop has attempted every selected file.
C4_FailedIsRetried ==
  /\ \A i \in DOMAIN errors :
       LET p == errors[i].filePath
       IN  /\ Rec(p) # NoRec
           /\ Rec(p).status = "failed"
           /\ \E j \in DOMAIN filesToSync :
                filesToSync[j].path = p /\ Rec(p).fileHash = filesToSync[j].hash
  /\ AfterDiff =>
       \A i \in DOMAIN scanResult :
         (Rec(scanResult[i].path) # NoRec /\ Rec(scanResult[i].path).status = "failed")
           => scanResult[i].path \in ToSyncPaths
  /\ pc = "finalize" => Len(errors) + processed = Len(filesToSync)

\* the run after a run with a failed file has selected that file, digest unchanged
C4_Witness ==
  /\ pc = "connect" /\ prevEnd = "dirty"
  /\ \E j \in DOMAIN filesToSync :
       LET f == filesToSync[j]
       IN  Rec(f.path) # NoRec /\ Rec(f.path).status = "failed"
           /\ Rec(f.path).fileHash = f.hash

\* what the finalization wrote when exactly one file of the batch failed
OneFailedOutcome ==
  LET N == Len(filesToSync)
      k == errors[1].filePath
  IN  /\ job.filesProcessed = N - 1
      /\ job.filesFailed = 1
      /\ Len(job.errors) = 1
      /\ job.errors[1].filePath = k
      /\ \A j \in DOMAIN filesToSync :
           LET f == filesToSync[j]
           IN  /\ Rec(f.path) # NoRec
               /\ Rec(f.path).fileHash = f.hash
               /\ Rec(f.path).status = IF f.path = k THEN "failed" ELSE "synced"

C6_ChangeDetection ==
  (AfterDiff /\ ~fsTouched) =>
    \A p \in Paths : \A c \in Contents :
      (fs[p] # NoFile /\ Rec(p) # NoRec /\ Rec(p).fileHash = calculateHash(c)
         /\ fs[p].content # c)
      => p \in ToSyncPaths

\* a synced file was rewritten with its modification time kept, and is selected
C6_Witness ==
  /\ pc = "connect" /\ ~fsTouched
  /\ \E j \in DOMAIN filesToSync :
       LET f == filesToSync[j]
       IN  /\ Rec(f.path) # NoRec /\ Rec(f.path).status = "synced"
           /\ Rec(f.path).fileHash # f.hash
           /\ Rec(f.path).localModifiedAt = f.modifiedAt

\* C7: a run that has ended left its job completed or failed, and the job's error
\* list names every file that failed in the run, with its message.
C7_ErrorsKept ==
  pc = "done" =>
    /\ job.status \in {"completed", "failed"}
    /\ \A i \in DOMAIN errors :
         \E j \in DOMAIN job.errors :
           /\ job.errors[j].filePath = errors[i].filePath
           /\ job.errors[j].error = errors[i].error

\* C8: the finalization writes completed when no file failed or at least one
\* succeeded, and failed only when every file of the batch failed.
C8_FinalStatusPolicy ==
  JustFinalized =>
    /\ job.status = IF Len(errors) = 0 \/ processed >= 1 THEN "completed" ELSE "failed"
    /\ job.status = "failed" <=> (processed = 0 /\ Len(errors) = Len(filesToSync))
    /\ job.errors = errors

\* a batch with a success and a failure has been finalized as completed
C8_Witness ==
  /\ JustFinalized /\ processed >= 1 /\ Len(errors) >= 1
  /\ job.status = "completed"

\* C9: the run after a crash selects exactly the scanned files that have no synced
\* row with their current digest, in scan order, and attempts each of them.
C9_ResumeAfterCrash ==
  /\ (AfterDiff /\ prevEnd = "crashed") =>
       /\ \A i \in DOMAIN scanResult :
            LET f == scanResult[i]
                upToDate == Rec(f.path) # NoRec /\ Rec(f.path).status = "synced"
                              /\ Rec(f.path).fileHash = f.hash
            IN  (f.path \in ToSyncPaths) <=> ~upToDate
       /\ \A i, j \in DOMAIN filesToSync :
            i < j => filesToSync[i].path < filesToSync[j].path
       /\ ToSyncPaths \subseteq ScannedPaths
  /\ (pc = "finalize" /\ prevEnd = "crashed") => Len(errors) + processed = Len(filesToSync)

\* after a crash the run skips a file the crashed run recorded and selects another
C9_Witness ==
  /\ pc = "connect" /\ prevEnd = "crashed"
  /\ \E p, q \in ScannedPaths :
       /\ p \notin ToSyncPaths /\ Rec(p) # NoRec /\ Rec(p).status = "synced"
       /\ q \in ToSyncPaths /\ Rec(q) = NoRec


\* every file of the source directory has a synced row holding its current digest
Converged ==
  \A p \in Paths :
    fs[p] # NoFile =>
      /\ ~needsSync(ledger, TenantId, MappingId, p, calculateHash(fs[p].content))
      /\ Rec(p).status = "synced"

\* C10: with runs repeated, the filesystem at rest and the remote not failing
\* forever, the ledger reaches and keeps a state where no file of the source
\* directory needs sync; and no diff skips a scanned file whose row is failed.
C10_EventualConvergence ==
  /\ <>[]Converged
  /\ [](AfterDiff =>
         \A i \in DOMAIN scanResult :
           (Rec(scanResult[i].path) # NoRec /\ Rec(scanResult[i].path).status = "failed")
             => scanResult[i].path \in ToSyncPaths)

\* a file failed in one run and is synced, with everything else, in a later one
C10_Witness ==
  /\ Converged /\ prevEnd = "dirty" /\ lastEnd = "clean" /\ pc = "done"

\* C11: a dryRun call leaves the synced-file rows, the job row, the remote drive
\* and the run's record of remote calls as they were; it only reads the source
\* directory and the ledger.
C11_DryRunNoSideEffects ==
  [][(pc' = pc /\ pc \in {"idle", "done"} /\ dry' # dry)
       => (ledger' = ledger /\ job' = job /\ remote' = remote /\ calls' = calls
           /\ fs' = fs)]_vars

\* a dry run over a ledger holding a failed row returned that file as a candidate
C11_Witness ==
  /\ dry # NoDry /\ pc = "done" /\ job.status = "completed"
  /\ \E i \in DOMAIN dry.result.toSync :
       Rec(dry.result.toSync[i].path) # NoRec /\ Rec(dry.result.toSync[i].path).status = "failed"

\* C12: on a ledger with no row of the mapping dryRun returns every scanned file,
\* zero up to date and the sum of their sizes; after a run that ended with every
\* upload recorded and no filesystem change since its scan, dryRun returns no
\* file and counts every scanned file as up to date.
C12_DryRunAgreesWithSync ==
  dry # NoDry =>
    /\ (\A p \in Paths : Rec(p) = NoRec) =>
         /\ dry.result.toSync = dry.scanned
         /\ dry.result.upToDate = 0
         /\ dry.result.totalSize = sumSizes(dry.scanned)
    /\ (pc = "done" /\ lastEnd = "clean" /\ ~fsTouched) =>
         /\ dry.scanned = scanResult
         /\ dry.result.toSync = <<>>
         /\ dry.result.upToDate = Len(scanResult)
         /\ dry.result.totalSize = 0

\* after a run that uploaded every file, the dry run counts them all up to date
C12_Witness ==
  /\ dry # NoDry /\ pc = "done" /\ lastEnd = "clean" /\ ~fsTouched
  /\ processed = NumPaths
  /\ dry.result.upToDate = NumPaths /\ dry.result.toSync = <<>>

\* C17: a run whose diff selects no file marks the job completed with filesTotal 0
\* and no error, goes on to the complete event, issues no remote call and
\* changes no synced-file row and nothing on the remote.
C17_ZeroWorkRun ==
  /\ [](pc \in {"zero", "complete_event", "done", "outer_catch"} /\ filesToSync = <<>>
          => calls = {} /\ attempts = <<>>)
  /\ [](pc = "complete_event" /\ filesToSync = <<>>
          => job.status = "completed" /\ job.filesTotal = 0 /\ job.errors = <<>>
             /\ job.filesProcessed = 0 /\ job.filesFailed = 0)
  /\ [][pc = "zero" => pc' \in {"zero", "complete_event", "idle"}]_vars
  /\ []((pc = "done" /\ filesToSync = <<>> /\ job.filesTotal = 0 /\ job.status = "completed")
          => phase = "complete")
  /\ [][(pc \in {"zero", "complete_event", "outer_catch"} /\ filesToSync = <<>>)
          => (ledger' = ledger /\ remote' = remote)]_vars

\* a run over files that are all up to date has returned after the complete event
C17_Witness ==
  /\ pc = "done" /\ caught = "" /\ scanResult # <<>> /\ filesToSync = <<>>
  /\ job.status = "completed" /\ job.filesTotal = 0 /\ phase = "complete"
  /\ \A p \in ScannedPaths : Rec(p) # NoRec /\ Rec(p).status = "synced"

\* a token, site or library failure has been caught by the top-level catch
ResolutionFailed == caught \in {"auth", "site", "library"}

\* C18: when the token, the site or the library cannot be resolved the job ends
\* failed with one error entry naming the mapping's source, no folder is ensured
\* and no upload attempted, and no synced-file row changes during the run.
C18_ResolutionFailure ==
  /\ []((pc = "done" /\ ResolutionFailed) =>
          /\ job.status = "failed"
          /\ job.errors = <<syncError(Source, caught)>>
          /\ calls \cap {"folder", "upload"} = {}
          /\ attempts = <<>>
          /\ errors = <<>> /\ processed = 0
          /\ phase = "error")
  /\ []((pc = "outer_catch" /\ ResolutionFailed) => calls \cap {"folder", "upload"} = {})
  /\ [][(pc \in {"start", "diff", "connect", "outer_catch"})
          => (ledger' = ledger /\ remote' = remote)]_vars

\* the site was not found after the token was acquired, and the run has returned
C18_Witness ==
  /\ pc = "done" /\ caught = "site" /\ calls = {"token", "site"}
  /\ job.status = "failed" /\ Len(filesToSync) = NumPaths /\ phase = "error"

\* position of path p in the scan result (0 when absent)
ScanIndex(p) ==
  IF \E i \in DOMAIN scanResult : scanResult[i].path = p
  THEN CHOOSE i \in DOMAIN scanResult : scanResult[i].path = p
  ELSE 0

RangeLen(r) == r[2] - r[1] + 1

\* C13: the ranges sent by uploadLargeFile start at 0, each next range starts at
\* the previous upper bound + 1, every range but the last has the chunk size's
\* length, no range goes past S-1, and once the loop has sent everything (the
\* item returned, or the loop left) the last upper bound is S-1.
C13_ChunkCoverage ==
  /\ \A i \in DOMAIN ranges :
       /\ ranges[i][1] = (IF i = 1 THEN 0 ELSE ranges[i - 1][2] + 1)
       /\ ranges[i][1] <= ranges[i][2]
       /\ ranges[i][2] <= totalSize - 1
       /\ RangeLen(ranges[i]) <= CHUNK_SIZE
       /\ i < Len(ranges) => RangeLen(ranges[i]) = CHUNK_SIZE
  /\ (upc = "returned" /\ "large" \in route) =>
       /\ totalSize > 0 /\ ranges # <<>>
       /\ ranges[Len(ranges)][2] = totalSize - 1
       /\ uploaded = totalSize
  /\ (upc = "chunks" /\ ranges # <<>>) => uploaded = ranges[Len(ranges)][2] + 1
  /\ (upc = "chunks" /\ ranges = <<>>) => uploaded = 0

\* a content of whole chunks and one byte was sent in full, its last range one byte long
C13_Witness ==
  /\ upc = "returned" /\ "large" \in route
  /\ Len(ranges) >= 3
  /\ RangeLen(ranges[Len(ranges)]) = 1
  /\ RangeLen(ranges[1]) = CHUNK_SIZE

Extension(n) == IF lastIndexOfDot(n) >= 0 THEN sliceToEnd(n, lastIndexOfDot(n)) ELSE <<>>

\* the name with its invalid characters replaced, trimmed and prefixed, before
\* any truncation
Cleaned(n) == prefixReserved(trimSpacesAndDots(replaceInvalid(n)))

\* C15: for a name with invalid characters the sanitized name has none of them,
\* is at most 200 characters long, and keeps the extension the cleaned name has.
C15_SanitizedName ==
  (sanitized # NoName /\ HasInvalidChar(name)) =>
    /\ ~HasInvalidChar(sanitized.value)
    /\ Len(sanitized.value) <= 200
    /\ Extension(Cleaned(name)) # <<>> => Extension(sanitized.value) = Extension(Cleaned(name))

\* C15 (what holds): no invalid character is left and the cleaned name's
\* extension is kept; the length is at most 200 when that extension is at most
\* 200 characters long
C15_SanitizedNameShortExtension ==
  (sanitized # NoName /\ HasInvalidChar(name)) =>
    /\ ~HasInvalidChar(sanitized.value)
    /\ Extension(Cleaned(name)) # <<>> => Extension(sanitized.value) = Extension(Cleaned(name))
    /\ Len(Extension(Cleaned(name))) <= MaxNameLength => Len(sanitized.value) <= MaxNameLength

\* the call failed for a reason other than a request that did not get through
FolderCallRefused == efOut \in {"thrown: parent not found", "thrown: name already exists"}

\* the first k parts of a path, the last under the name the drive stores it by
StoredPrefix(path, k) == Append(SubSeq(path, 1, k - 1), sanitizeName(path[k]))

\* C16: a call of ensureFolder with a path an earlier call succeeded for does not
\* fail on the drive's state, issues no create request and leaves the folders as
\* they are; after a call that succeeded every prefix of the path is a folder
\* (its last part under its sanitized name).
C16_EnsureFolderIdempotent ==
  /\ [](efAgain => (~FolderCallRefused /\ efCreated = 0))
  /\ [](efOut = "returned" => \A k \in 1..Len(efPath) : StoredPrefix(efPath, k) \in folders)
  /\ [][efAgain /\ efAgain' => folders' = folders]_vars

\* every part of the path is a name sanitizeName returns unchanged
PlainPath(path) == \A k \in DOMAIN path : sanitizeName(path[k]) = path[k]

\* C16 (what holds): the same, for paths whose every part is a name that
\* sanitizeName leaves as it is.
C16_EnsureFolderIdempotentPlainNames ==
  /\ []((efAgain /\ PlainPath(efPath)) => (~FolderCallRefused /\ efCreated = 0))
  /\ [](efOut = "returned" => \A k \in 1..Len(efPath) : StoredPrefix(efPath, k) \in folders)
  /\ [][(efAgain /\ efAgain' /\ PlainPath(efPath)) => folders' = folders]_vars

JobTerminal == job.status \in {"completed", "failed", "cancelled"}

\* C21: once the job of a run has a terminal status, no later step of that run
\* changes the job row (completeJob is applied once).
C21_FinalizedOnce ==
  [][(JobTerminal /\ pc' # "start") => job' = job]_vars

\* C21 (what holds): the job row changes after its finalization only in the
\* top-level catch, reached when the progress callback throws on the complete event
C21_RefinalizedOnlyByCatch ==
  [][(JobTerminal /\ pc' # "start" /\ job' # job)
       => (pc = "outer_catch" /\ phase = "complete" /\ caught = "callback")]_vars

\* C25: in a run no scanning event follows an uploading event, a terminal event
\* (complete or error) is the last event of the run, and a run that returned
\* has emitted one.
C25_ProgressStateMachine ==
  /\ [][(phase = "uploading" /\ pc' \notin {"start", "idle"}) => phase' # "scanning"]_vars
  /\ [][(phase \in {"complete", "error"} /\ pc' \notin {"start", "idle"})
         => phase' = phase]_vars
  /\ [](pc = "done" => phase \in {"complete", "error"})

\* C25 (what holds): the same, but for the error event the top-level catch emits
\* after a complete event on which the progress callback threw
C25_ProgressExceptCatchAfterComplete ==
  /\ [][(phase = "uploading" /\ pc' \notin {"start", "idle"}) => phase' # "scanning"]_vars
  /\ [][(phase \in {"complete", "error"} /\ pc' \notin {"start", "idle"} /\ phase' # phase)
         => (pc = "outer_catch" /\ phase = "complete" /\ phase' = "error")]_vars
  /\ [](pc = "done" => phase \in {"complete", "error"})

\* indices of the scanned files the ledger says need sync
NeedingSync ==
  {i \in DOMAIN scanResult :
     needsSync(ledger, TenantId, MappingId, scanResult[i].path, scanResult[i].hash)}

RECURSIVE SizeOfScanned(_)
SizeOfScanned(indices) ==
  IF indices = {} THEN 0
  ELSE LET i == CHOOSE x \in indices : TRUE
       IN  scanResult[i].size + SizeOfScanned(indices \ {i})

\* C26: the job of a run is pending with zero counters until the diff; right after
\* the diff it is running, filesTotal is the number of scanned files needing sync
\* and bytesTotal the sum of the sizes of those files only; a job is running only
\* past the diff.
C26_JobTotals ==
  /\ pc \in {"start", "diff"} =>
       /\ job.status = "pending"
       /\ job.filesTotal = 0 /\ job.filesProcessed = 0 /\ job.filesFailed = 0
       /\ job.bytesTotal = 0 /\ job.bytesTransferred = 0 /\ job.errors = <<>>
  /\ AfterDiff =>
       /\ job.status = "running"
       /\ job.filesTotal = Cardinality(NeedingSync)
       /\ job.bytesTotal = SizeOfScanned(NeedingSync)
       /\ job.filesProcessed = 0 /\ job.bytesTransferred = 0
  /\ (job.status = "running" /\ pc # "idle") => PastDiff

\* the diff has counted one file of two: the other is up to date
C26_Witness ==
  /\ pc = "connect" /\ Len(scanResult) >= 2 /\ job.filesTotal = 1
  /\ job.bytesTotal < sumSizes(scanResult)
  /\ \E i \in DOMAIN scanResult :
       Rec(scanResult[i].path) # NoRec /\ Rec(scanResult[i].path).status = "synced"
       /\ scanResult[i].path \notin ToSyncPaths

ChunkResponses == {i \in DOMAIN responses : responses[i].request = "chunk"}
SessionRequests == {i \in DOMAIN responses : responses[i].request = "session"}

C28_WitnessFailed ==
  /\ upc = "thrown" /\ Len(ranges) = 2
  /\ responses[Len(responses)].response = "failed"

\* the rows of the keys other than k, in table order
OtherRows(t, k) == SelectSeq(t, LAMBDA r : rowKey(r) # k)

\* C22: the table never holds two rows of one (tenant, mapping, local path); after
\* an upsert the one row of its key carries the upsert's value in every column;
\* an upsert, a status update or a delete leaves the rows of all other keys as
\* they were.
C22_LedgerUniqueness ==
  /\ [](\A i, j \in DOMAIN rows : rowKey(rows[i]) = rowKey(rows[j]) => i = j)
  /\ [](lastOp.op = "upsert" =>
          /\ Cardinality(rowsOf(rows, rowKey(lastOp.file))) = 1
          /\ \A i \in rowsOf(rows, rowKey(lastOp.file)) : rows[i] = lastOp.file)
  /\ [][(lastOp'.op = "upsert") =>
          OtherRows(rows', rowKey(lastOp'.file)) = OtherRows(rows, rowKey(lastOp'.file))]_vars
  /\ [][(lastOp'.op \in {"update", "delete"}) =>
          OtherRows(rows', lastOp'.key) = OtherRows(rows, lastOp'.key)]_vars

\* an upsert has replaced a row of which every mutable column had another value,
\* in a table holding rows of other keys
C22_Witness ==
  /\ lastOp.op = "upsert" /\ lastOp.existed /\ lastOp.allDiffer
  /\ Len(rows) = Cardinality(TableKeys)

\* the mappings of the jobs, in the order of the list returned
JobMappings == [i \in DOMAIN tenantRun.jobs |-> tenantRun.jobs[i].mapping]

IsPrefix(a, b) == Len(a) <= Len(b) /\ \A i \in DOMAIN a : a[i] = b[i]

\* C23: sync run with --mapping <index> and no --dry-run calls syncMapping for
\* the mapping at that index and for no other, and one job results.
C23_OnlySelectedMapping ==
  (cli.at \in {"syncing", "exit 0"} /\ ~cli.dryRun /\ cli.mapping # NoOption) =>
    /\ \A i \in DOMAIN tenantRun.synced : tenantRun.synced[i] = cli.mapping
    /\ tenantRun.at = "returned" => (tenantRun.synced = <<cli.mapping>> /\ JobMappings = <<cli.mapping>>)

\* C23 (what holds): the command syncs the enabled mappings of the tenant,
\* whatever --mapping selects; the selection is honoured by --dry-run only
C23_SelectionIgnored ==
  /\ (cli.at \in {"syncing", "exit 0"} /\ ~cli.dryRun) =>
       IsPrefix(tenantRun.synced, enabledMappings(tenantMappings))
  /\ (cli.at = "exit 0" /\ cli.dryRun /\ cli.mapping # NoOption) =>
       cli.scanned = <<cli.mapping>>

\* C27: syncTenant calls syncMapping for the enabled mappings in configuration
\* order, once each and for no disabled one; it ends by returning one job per
\* enabled mapping, also when a job ended failed.
C27_SyncTenant ==
  /\ IsPrefix(tenantRun.synced, enabledMappings(tenantMappings))
  /\ tenantRun.at \in {"returned", "rejected"} =>
       /\ tenantRun.at = "returned"
       /\ tenantRun.synced = enabledMappings(tenantMappings)
       /\ JobMappings = enabledMappings(tenantMappings)

\* C27 (what holds): the same as long as no syncMapping call rejects; a failed
\* job that syncMapping returns does not stop the loop
C27_SyncTenantUnlessRejected ==
  /\ IsPrefix(tenantRun.synced, enabledMappings(tenantMappings))
  /\ IsPrefix(JobMappings, tenantRun.synced)
  /\ tenantRun.at = "returned" =>
       /\ tenantRun.synced = enabledMappings(tenantMappings)
       /\ JobMappings = enabledMappings(tenantMappings)
  /\ tenantRun.at = "rejected" => Len(tenantRun.synced) = Len(tenantRun.jobs) + 1

\* keys of the synced-file records of a tenant
KeysOfTenant(tenantId) == {k \in Keys : k[1] = tenantId}

\* C24: when status clear <tenant-id> --force has printed that the history is
\* cleared, the ledger holds no record of the tenant, so needsSync is true for
\* every file of the tenant.
C24_ClearForgets ==
  [][(statusOut = NoOutput /\ statusOut' # NoOutput
        /\ statusOut'.printed = "Sync history cleared.") =>
       \A k \in KeysOfTenant(statusOut'.tenantId) :
         /\ ledger'[k] = NoRec
         /\ \A h \in Hashes : needsSync(ledger', k[1], k[2], k[3], h)]_vars

\* C24 (what holds): the command leaves the ledger as it was
C24_ClearChangesNothing ==
  [][(statusOut = NoOutput /\ statusOut' # NoOutput) => ledger' = ledger]_vars

\* every segment a request sends is the sanitized form of the name it comes from
SentSanitized(r) ==
  /\ Len(r.sent) = Len(r.original)
  /\ \A i \in DOMAIN r.sent : r.sent[i] = sanitizeName(r.original[i])

\* C30: in every request of ensureFolder, uploadSmallFile and createUploadSession
\* each path segment and name sent is the sanitized form of the original name.
C30_EveryNameSanitized ==
  \A i \in DOMAIN requests : SentSanitized(requests[i])

\* C30 (what holds): the name of the folder created and the name of the file
\* are sent sanitized; the segments of the lookup path and of the parent path
\* are sent as the caller gave them
C30_LastNameSanitized ==
  \A i \in DOMAIN requests :
    LET r == requests[i]
        n == Len(r.original)
    IN  /\ Len(r.sent) = n
        /\ \A j \in 1..(n - 1) : r.sent[j] = r.original[j]
        /\ n > 0 => r.sent[n] = IF r.kind = "lookup" THEN r.original[n]
                                ELSE sanitizeName(r.original[n])

RaceThrown(c) ==
  racers[c].at \in {"thrown: request failed", "thrown: parent not found",
                    "thrown: name already exists"}

IsReserved(n) == \E r \in RESERVED_NAMES : toUpperCase(n) = toUpperCase(r)

Whitespace == {" "}

BeginsOrEndsWith(n, chars) == n # <<>> /\ (n[1] \in chars \/ n[Len(n)] \in chars)

\* C31: the name sanitizeName returns neither begins nor ends with a dot or a
\* whitespace character, and a name equal (whatever the case) to a reserved name
\* is returned with an underscore in front.
C31_StrippedAndPrefixed ==
  sanitized # NoName =>
    /\ ~BeginsOrEndsWith(sanitized.value, {"."} \cup Whitespace)
    /\ IsReserved(name) => sanitized.value = <<"_">> \o name

\* C31 (what holds): the returned name does not end with a dot, does not begin
\* with one unless it was truncated, and a name that is reserved once its outer
\* spaces and dots are removed is returned with an underscore in front
C31_NoOuterDots ==
  sanitized # NoName =>
    LET cleaned == trimSpacesAndDots(replaceInvalid(name))
        v == sanitized.value
    IN  /\ v # <<>> => v[Len(v)] # "."
        /\ (v # <<>> /\ Len(prefixReserved(cleaned)) <= MaxNameLength) => v[1] # "."
        /\ IsReserved(cleaned) => v = <<"_">> \o cleaned

\* indices of the files of this run's batch whose record is synced
SyncedInRun == {i \in DOMAIN filesToSync : Rec(filesToSync[i].path).status = "synced"}

RECURSIVE SizeOfBatch(_)
SizeOfBatch(indices) ==
  IF indices = {} THEN 0
  ELSE LET i == CHOOSE x \in indices : TRUE
       IN  filesToSync[i].size + SizeOfBatch(indices \ {i})

\* C34: the job's filesProcessed + filesFailed never exceeds filesTotal and its
\* bytesTransferred never exceeds bytesTotal; within a run neither counter of
\* files decreases; once the loop has ended and the job is finalized, processed
\* plus failed is the total, failed is the length of the job's error list and
\* bytesTransferred is the summed size of the files recorded synced in the run.
C34_JobCounters ==
  /\ [](/\ job.filesProcessed + job.filesFailed <= job.filesTotal
        /\ job.bytesTransferred <= job.bytesTotal)
  /\ [][(pc' # "start") =>
          /\ job'.filesProcessed >= job.filesProcessed
          /\ job'.filesFailed >= job.filesFailed]_vars
  /\ [](JustFinalized =>
          /\ job.filesProcessed + job.filesFailed = job.filesTotal
          /\ job.filesFailed = Len(job.errors)
          /\ job.bytesTransferred = SizeOfBatch(SyncedInRun))

\* a run of two files has finished its loop with one synced after one failed
C34_Witness ==
  /\ JustFinalized /\ job.filesTotal = 2
  /\ job.filesProcessed = 1 /\ job.filesFailed = 1
  /\ Rec(filesToSync[1].path).status = "failed"
  /\ Rec(filesToSync[2].path).status = "synced"

\* C35: a step of a run changes the ledger only at the key of the file the loop
\* is at, a file of this run's batch, and puts a record there; every other record
\* (up-to-date files, files gone from disk, other mappings, other tenants) stays
\* as it is and no record is removed.
C35_LedgerFrame ==
  [][\A k \in Keys :
       ledger'[k] # ledger[k] =>
         /\ pc \in {"file_record", "file_catch"}
         /\ k = Key(filesToSync[idx].path)
         /\ filesToSync[idx].path = attempts[Len(attempts)]
         /\ ledger'[k] # NoRec]_vars

\* a run has written the record of one file while the ledger holds the records of
\* another mapping and another tenant and of an up-to-date file it left alone
C35_Witness ==
  /\ pc = "complete_event" /\ Len(filesToSync) = 1 /\ Len(scanResult) = 2
  /\ \E p \in ScannedPaths \ ToSyncPaths : Rec(p) # NoRec /\ Rec(p).status = "synced"
  /\ ledger[<<"t1", "m2", 1>>] # NoRec /\ ledger[<<"t2", "m1", 1>>] # NoRec
  /\ Rec(filesToSync[1].path).status = "synced"

\* C36: a synced record with digest h for a path means the content last uploaded
\* to the remote for that path has digest h.
C36_DigestMatchesRemote ==
  \A p \in Paths :
    (Rec(p) # NoRec /\ Rec(p).status = "synced") =>
      /\ remote[p] # NoItem
      /\ calculateHash(remote[p].content) = Rec(p).fileHash

\* C36 (what holds): a synced record carries the digest the scan of its run
\* computed; it is the digest of the uploaded content as long as the file was not
\* modified since that scan
C36_DigestOfScan ==
  [][(pc = "file_record" /\ pc' \in {"file_begin", "finalize"}) =>
       /\ ledger'[Key(filesToSync[idx].path)] # NoRec
       /\ ledger'[Key(filesToSync[idx].path)].fileHash = filesToSync[idx].hash
       /\ ~fsTouched =>
            calculateHash(remote[filesToSync[idx].path].content) = filesToSync[idx].hash]_vars

Scanned(n) == \E i \in DOMAIN walk.files : walk.files[i].name = n
CalledBack(n) == \E i \in DOMAIN walk.onFile : walk.onFile[i] = n
WithinBounds(size, filters) ==
  /\ filters.maxFileSize # NotSet => size <= filters.maxFileSize
  /\ filters.minFileSize # NotSet => size >= filters.minFileSize
Included(n, filters) ==
  filters.include # {} => \E pattern \in filters.include : minimatch(n, pattern)
Excluded(n, filters) == \E pattern \in filters.exclude : minimatch(n, pattern)
C32_FilteredExactly ==
  walk.at = "returned" =>
    \A i \in DOMAIN walk.entries :
      LET entry == walk.entries[i]
      IN  /\ entry.readable =>
                (Scanned(entry.name) <=>
                   /\ WithinBounds(entry.size, walk.filters)
                   /\ Included(entry.name, walk.filters)
                   /\ ~Excluded(entry.name, walk.filters))
          /\ CalledBack(entry.name) => Scanned(entry.name)

\* C32 (what holds): the same with a size bound of 0 counted as no bound; the
\* files called back are the files of the result, in order
C32_FilteredUnlessZeroBound ==
  walk.at = "returned" =>
    /\ \A i \in DOMAIN walk.entries :
         LET entry == walk.entries[i]
             filters == walk.filters
         IN  Scanned(entry.name) <=>
               /\ entry.readable
               /\ filters.maxFileSize \in {NotSet, 0} \/ entry.size <= filters.maxFileSize
               /\ filters.minFileSize \in {NotSet, 0} \/ entry.size >= filters.minFileSize
               /\ Included(entry.name, filters)
               /\ ~Excluded(entry.name, filters)
    /\ walk.onFile = [i \in DOMAIN walk.files |-> walk.files[i].name]

\* C33: while the cached token of the tenant is missing or expired, concurrent
\* getAccessToken calls share one acquisition: at most one token request for the
\* tenant is in flight at any time.
C33_NoStampede == inFlight <= 1

\* C33 (what holds): a call that finds an unexpired cached token returns it
\* without a request, and every other call issues a request of its own
C33_RequestUnlessCached ==
  [][\A c \in Callers :
       (auth.callers[c].at = "idle" /\ auth'.callers[c].at # "idle") =>
         IF cacheHit(auth.tokenCache)
         THEN /\ auth'.callers[c] = [at |-> "returned", token |-> auth.tokenCache.accessToken]
              /\ auth'.acquired = auth.acquired
         ELSE /\ auth'.callers[c].at = "awaiting"
              /\ auth'.acquired = auth.acquired + 1]_vars

\* C38: when enroll returns success = false the tenant store and the license store
\* are unchanged; when it returns success = true exactly one tenant was added and
\* the license is activated and bound to that tenant's id.
C38_AllOrNothing ==
  enrol.at = "returned" =>
    IF enrol.result.success
    THEN /\ enrol.result.tenantId \notin enrol.before.tenants
         /\ enrol.tenants = enrol.before.tenants \cup {enrol.result.tenantId}
         /\ enrol.licenses[enrol.licenseKey] =
              [stored |-> TRUE, activated |-> TRUE, tenantId |-> enrol.result.tenantId]
         /\ \A k \in LicenseKeys \ {enrol.licenseKey} :
              enrol.licenses[k] = enrol.before.licenses[k]
    ELSE /\ enrol.tenants = enrol.before.tenants
         /\ enrol.licenses = enrol.before.licenses

\* C38 (what holds): the success case, the license store in every failure, and
\* the tenant store in every failure but that of the activation
C38_UnlessActivationFails ==
  enrol.at = "returned" =>
    IF enrol.result.success
    THEN /\ enrol.result.tenantId \notin enrol.before.tenants
         /\ enrol.tenants = enrol.before.tenants \cup {enrol.result.tenantId}
         /\ enrol.licenses[enrol.licenseKey] =
              [stored |-> TRUE, activated |-> TRUE, tenantId |-> enrol.result.tenantId]
    ELSE /\ enrol.licenses = enrol.before.licenses
         /\ enrol.result.error \notin {"Enrollment failed: License not found",
                                       "Enrollment failed: Invalid license"}
              => enrol.tenants = enrol.before.tenants
         /\ Cardinality(enrol.tenants \ enrol.before.tenants) <= 1

\* C39: every key createSignedKey produces is accepted by validateSignedKey with
\* the same tier until its expiry, whatever characters the encoded payload and
\* the truncated signature contain, so that a fresh, unexpired license can be
\* activated.
Unexpired == issued.expiresInDays = 0 \/ issued.now <= issued.expiresInDays
C39_RoundTrip ==
  /\ (issued.at = "validated" /\ Unexpired) =>
        issued.validation.valid /\ issued.validation.tier = issued.tier
  /\ (issued.at \in {"activated", "threw"} /\ Unexpired) => issued.activated

\* C39 (what holds): the round trip of the keys whose truncated signature has
\* no '-'; a key whose signature has one is rejected as of invalid format
HasDash(s) == \E i \in DOMAIN s : s[i] = "-"
C39_RoundTripUnlessDash ==
  /\ (issued.at = "validated" /\ Unexpired) =>
        IF HasDash(issued.signature)
        THEN issued.validation = Invalid("Invalid key format")
        ELSE issued.validation.valid /\ issued.validation.tier = issued.tier
  /\ (issued.at \in {"activated", "threw"} /\ Unexpired) =>
        (issued.activated <=> ~HasDash(issued.signature))
  /\ (issued.at \in {"validated", "threw"} /\ ~Unexpired /\ ~HasDash(issued.signature)) =>
        issued.validation = Invalid("License expired")

====
